---- MODULE Spec2Model ----
(***************************************************************************)
(* State-machine model of src/main.py: a Telegram relay bot.  A webhook    *)
(* request is deduplicated by update id and dispatched to one aiogram      *)
(* handler.  A handler is a coroutine: it runs without interruption from   *)
(* one outbound Bot API call (an await) to the next, and other webhook     *)
(* requests may run while it is suspended in such a call.  Every outbound  *)
(* call may succeed or raise.                                               *)
(***************************************************************************)
EXTENDS Integers, Sequences, FiniteSets, TLC

(* ------------------------------ bounds -------------------------------- *)

\* number of distinct update ids the transport hands out
MaxUpdates == 6
\* ... of them while requests overlap
MaxOverlapping == 3
\* ... of them in the relay runs
MaxRelay == 3
\* ... of them in the album runs
MaxBatch == 4
\* replies of an administrator
MaxReplies == 2
\* how often one update id may be POSTed to the webhook
MaxDeliveries == 2
\* wall-clock horizon, seconds
MaxTime == 62
\* webhook requests that may be suspended in an outbound call at once
MaxInFlight == 2
\* handlers that an outbound call may abort by raising
MaxFailures == 1
\* updates per behaviour of the commands specification
MaxCommands == 3
\* updates per behaviour of the payloads specification
MaxPayloads == 3
\* updates per behaviour of the specification of overlapping button presses
MaxPresses == 6
\* updates per behaviour of the specification of guarded calls
MaxGuarded == 4
\* updates per behaviour of the specification of the status message
MaxStatus == 3
\* the specification of a blocked sender's commands: updates per behaviour,
\* and the number of updates up to which /start, a text and a press of an
\* administrator are delivered
MaxBlockedSender == 6
MaxLeadingStarts == 1
MaxLeadingTexts == 2
MaxLeadingPresses == 4
\* updates per behaviour of the statistics specification
MaxStats == 4

(* ------------------------- program constants -------------------------- *)

ADMIN_CHAT_ID == -100
\* the coalescing window of handle_user_message, seconds
CoalesceWindow == 60

(* ------------------------------ inputs -------------------------------- *)

Users == {1, 2}
\* user.full_name and user.username of the Telegram accounts: account 2 has
\* no username
FullName(u) == u
HasUsername(u) == u = 1
TextIds == {1, 2}
MediaGroups == {1, 2}
\* seconds the clock may advance in one step
TickSteps == {30, 31}

UpdateIds == 1 .. MaxUpdates

(* --------------------- formatting and parsing ------------------------- *)

Digits == <<"0", "1", "2", "3", "4", "5", "6", "7", "8", "9">>

\* str(n) for n >= 0, as a sequence of characters
RECURSIVE IntToStr(_)
IntToStr(n) ==
    IF n < 10 THEN <<Digits[n + 1]>>
    ELSE IntToStr(n \div 10) \o <<Digits[(n % 10) + 1]>>

DigitValue(c) == CHOOSE d \in 0 .. 9 : Digits[d + 1] = c
IsDigit(c) == \E d \in 0 .. 9 : Digits[d + 1] = c

RECURSIVE DigitsToInt(_)
DigitsToInt(s) ==
    IF Len(s) = 0 THEN 0
    ELSE 10 * DigitsToInt(SubSeq(s, 1, Len(s) - 1)) + DigitValue(s[Len(s)])

\* a conversion that reads whatever is no number as 0
StrToIntLenient(s) ==
    IF Len(s) > 0 /\ \A i \in 1 .. Len(s) : IsDigit(s[i])
    THEN [ok |-> TRUE, val |-> DigitsToInt(s)]
    ELSE [ok |-> TRUE, val |-> 0]

\* int(s): [ok |-> FALSE] stands for ValueError
StrToInt(s) ==
    IF Len(s) > 0 /\ \A i \in 1 .. Len(s) : IsDigit(s[i])
    THEN [ok |-> TRUE, val |-> DigitsToInt(s)]
    ELSE [ok |-> FALSE, val |-> 0]

\* callback_data f"{prefix}:{user_id}"
CallbackData(prefix, user_id) == [prefix |-> prefix, arg |-> IntToStr(user_id)]

\* data.split(":", 1) followed by int(user_id_str)
ParseTarget(data) == StrToInt(data.arg)

(* ------------------------------ texts --------------------------------- *)
\* A text is a sequence of tokens <<kind, n>>.

format_user_info(u) ==
    <<<<"full_name", FullName(u)>>>>
    \o (IF HasUsername(u) THEN <<<<"username", u>>>> ELSE <<>>)
    \o <<<<"user_id", u>>>>

make_ban_keyboard(user_id) == <<CallbackData("ban", user_id)>>
make_unban_keyboard(user_id) == <<CallbackData("unban", user_id)>>
make_ban_confirm_keyboard(user_id) ==
    <<CallbackData("banconfirm", user_id), CallbackData("bancancel", user_id)>>
make_unban_confirm_keyboard(user_id) ==
    <<CallbackData("unbanconfirm", user_id), CallbackData("unbancancel", user_id)>>
NoKeyboard == <<>>

LangNo(lang) == IF lang = "en" THEN 1 ELSE 0

build_status_text(lang, anon) ==
    IF lang = "en"
    THEN <<<<IF anon THEN "anon_on_en" ELSE "anon_off_en", 0>>, <<"lang_en", 0>>>>
    ELSE <<<<IF anon THEN "anon_on_ru" ELSE "anon_off_ru", 0>>, <<"lang_ru", 0>>>>

build_thanks_text(lang) == <<<<"thanks", LangNo(lang)>>>>
build_blocked_text(lang) == <<<<"blocked", LangNo(lang)>>>>
build_unsupported_text(lang) == <<<<"unsupported", LangNo(lang)>>>>
build_anon_on_text(lang) == <<<<"anon_now_on", LangNo(lang)>>>>
build_anon_off_text(lang) == <<<<"anon_now_off", LangNo(lang)>>>>
build_answer_header(lang) == <<<<"answer_header", LangNo(lang)>>>>
build_start_text(lang) == <<<<"start", LangNo(lang)>>>>

\* the language codes of the start keyboard, as the text after "lang:"
CodeRu == <<"r", "u">>
CodeEn == <<"e", "n">>
LangOfCode(code) == IF code = CodeEn THEN "en" ELSE "ru"

\* the buttons of the start message: callback_data and, as label, what the
\* button shows
make_start_keyboard(lang, anon) ==
    <<[prefix |-> "toggle_anon", arg |-> <<>>,
       label |-> <<IF anon THEN "disable_anon" ELSE "enable_anon", LangNo(lang)>>],
      [prefix |-> "lang", arg |-> CodeRu, label |-> <<"russian", 0>>],
      [prefix |-> "lang", arg |-> CodeEn, label |-> <<"english", 0>>]>>

UnknownLanguageNotice == <<<<"unknown_language", 0>>>>
LanguageSwitchedNotice(lang) == <<<<"language_switched", LangNo(lang)>>>>

AnonUsageText(lang) == <<<<"anon_usage", LangNo(lang)>>>>

\* the body of a user's message as it is put into a notification
TextOf(t) == <<<<"text", t>>>>
CaptionOf(c) == IF c = 0 THEN <<>> ELSE <<<<"caption", c>>>>

\* base_text of a new text notification
NewTextBody(u, anon, t) ==
    IF anon
    THEN <<<<"new_anon_message", 0>>>> \o TextOf(t)
    ELSE <<<<"new_message", 0>>>> \o format_user_info(u) \o TextOf(t)

\* admin_caption of a new photo or video notification
NewMediaBody(u, anon, kind, c) ==
    IF anon
    THEN <<<<"new_anon_media", IF kind = "photo" THEN 0 ELSE 1>>>> \o CaptionOf(c)
    ELSE <<<<"new_media", IF kind = "photo" THEN 0 ELSE 1>>>>
         \o format_user_info(u) \o CaptionOf(c)

\* new_block: the accumulated text with the addendum appended
AddendumBody(old_text, t) == old_text \o <<<<"addendum", 0>>>> \o TextOf(t)

SuppressedNotice == <<<<"reply_suppressed", 0>>>>
ReplySentNotice == <<<<"reply_sent", 0>>>>

(* ------------------------------- state -------------------------------- *)

VARIABLES
    processed_updates,      \* set of update ids already fed to the dispatcher
    user_settings,          \* user id -> [lang, anon, status_msg_id]
    banned_users,           \* set of user ids
    ban_log,                \* user id -> [timestamp, name, username]
    user_message_log,       \* sequence of [user_id, timestamp, type, is_anon]
    last_admin_message,     \* user id -> [chat_id, message_id, text, time, has_media, is_anon]
    handled_media_groups,   \* set of media_group_id
    message_targets,        \* <<chat id, message id>> -> user id
    clock,                  \* time.time()
    admin_chat,             \* bot messages in the administrator chat, by message id
    user_chat,              \* user id -> bot messages in the private chat, by message id
    outbox,                 \* the successful outbound calls, in order, with their update id
    updates,                \* the updates the transport has produced, by update id
    deliveries,             \* update id -> number of POSTs of it
    feeds,                  \* update id -> number of dp.feed_update calls for it
    pc,                     \* update id -> where its handler is suspended
    loc                     \* update id -> the handler's local variables

stores == <<user_settings, banned_users, ban_log, user_message_log,
            last_admin_message, handled_media_groups, message_targets>>
world == <<admin_chat, user_chat, outbox>>
vars == <<processed_updates, user_settings, banned_users, ban_log, user_message_log,
          last_admin_message, handled_media_groups, message_targets, clock,
          admin_chat, user_chat, outbox, updates, deliveries, feeds, pc, loc>>

NoInfo == [chat_id |-> 0, message_id |-> 0, text |-> <<>>, time |-> 0,
           has_media |-> FALSE, is_anon |-> FALSE]

NoLoc == [user_id |-> 0, lang |-> "ru", anon |-> FALSE, first |-> FALSE, now |-> 0,
          info |-> NoInfo, text |-> <<>>, kb |-> <<>>, msg |-> 0, ts |-> 0,
          ret |-> "none", pressed |-> 0]

DefaultSettings == [lang |-> "ru", anon |-> FALSE, status_msg_id |-> 0]

Init ==
    /\ processed_updates = {}
    /\ user_settings = <<>>
    /\ banned_users = {}
    /\ ban_log = <<>>
    /\ user_message_log = <<>>
    /\ last_admin_message = <<>>
    /\ handled_media_groups = {}
    /\ message_targets = <<>>
    /\ clock = 0
    /\ admin_chat = <<>>
    /\ user_chat = [u \in Users |-> <<>>]
    /\ outbox = <<>>
    /\ updates = <<>>
    /\ deliveries = [i \in UpdateIds |-> 0]
    /\ feeds = [i \in UpdateIds |-> 0]
    /\ pc = [i \in UpdateIds |-> "idle"]
    /\ loc = [i \in UpdateIds |-> NoLoc]

(* ------------------------------ events -------------------------------- *)

NoData == [prefix |-> "", arg |-> <<>>]
NoText == <<"", 0>>

\* a message update
Message(chat, from_user, kind, text, caption, group, reply_to) ==
    [type |-> "message", chat |-> chat, from_user |-> from_user, kind |-> kind,
     text |-> text, caption |-> caption, group |-> group, reply_to |-> reply_to,
     data |-> NoData, msg_id |-> 0]

\* a callback_query update: a press of a button of message msg_id
Callback(chat, from_user, data, msg_id) ==
    [type |-> "callback_query", chat |-> chat, from_user |-> from_user, kind |-> "",
     text |-> NoText, caption |-> 0, group |-> 0, reply_to |-> 0,
     data |-> data, msg_id |-> msg_id]

\* The first word of a text, letter by letter; a text that is no command is
\* kept as the tag "plain" and has no command word.
CommandWord(tag) ==
    IF tag = "/start" THEN <<"/", "s", "t", "a", "r", "t">>
    ELSE IF tag = "/anon" THEN <<"/", "a", "n", "o", "n">>
    ELSE IF tag = "/anonymous" THEN <<"/", "a", "n", "o", "n", "y", "m", "o", "u", "s">>
    ELSE IF tag = "/help" THEN <<"/", "h", "e", "l", "p">>
    ELSE IF tag = "/bans" THEN <<"/", "b", "a", "n", "s">>
    ELSE IF tag = "/stats" THEN <<"/", "s", "t", "a", "t", "s">>
    ELSE <<>>

\* str.startswith, and a regexp anchored at the start
StartsWith(word, prefix) ==
    Len(word) >= Len(prefix) /\ SubSeq(word, 1, Len(prefix)) = prefix

\* a filter for /anon that wants the whole first word
MatchesAnonWord(text) == CommandWord(text[1]) = <<"/", "a", "n", "o", "n">>

\* F.text.regexp(r"^/anon")
MatchesAnon(text) == StartsWith(CommandWord(text[1]), <<"/", "a", "n", "o", "n">>)

\* message.text and message.text.startswith("/")
HasText(ev) == ev.kind = "text"
IsCommandText(ev) == HasText(ev) /\ StartsWith(CommandWord(ev.text[1]), <<"/">>)

\* the first handler whose filters match, in registration order
Handler(ev) ==
    IF ev.type = "message" THEN
        IF ev.chat = "private" THEN
            IF HasText(ev) /\ ev.text = <<"/start", 0>> THEN "cmd_start"
            ELSE IF HasText(ev) /\ MatchesAnon(ev.text) THEN "cmd_anon"
            ELSE "handle_user_message"
        ELSE IF ev.chat = "admin" /\ ev.reply_to # 0 THEN "handle_admin_reply"
        ELSE IF ev.chat = "admin" /\ ev.text = <<"/bans", 0>> THEN "cmd_bans"
        ELSE IF ev.chat = "admin" /\ ev.text = <<"/stats", 0>> THEN "cmd_stats"
        ELSE "none"
    ELSE
        IF ev.chat = "private" /\ ev.data.prefix = "toggle_anon" THEN "cb_toggle_anon"
        ELSE IF ev.chat = "private" /\ ev.data.prefix = "lang" THEN "cb_set_lang"
        ELSE IF ev.chat = "admin" /\ ev.data.prefix = "ban" THEN "handle_ban_button"
        ELSE IF ev.chat = "admin" /\ ev.data.prefix = "banconfirm" THEN "handle_ban_confirm"
        ELSE IF ev.chat = "admin" /\ ev.data.prefix = "bancancel" THEN "handle_ban_cancel"
        ELSE IF ev.chat = "admin" /\ ev.data.prefix = "unban" THEN "handle_unban_button"
        ELSE IF ev.chat = "admin" /\ ev.data.prefix = "unbanconfirm" THEN "handle_unban_confirm"
        ELSE IF ev.chat = "admin" /\ ev.data.prefix = "unbancancel" THEN "handle_unban_cancel"
        ELSE IF ev.chat = "admin" /\ ev.data.prefix = "stats" THEN "handle_stats_callback"
        ELSE "none"

(* ------------------------------ helpers ------------------------------- *)

\* user_settings after get_user_settings(user_id)
get_user_settings(user_id) ==
    IF user_id \in DOMAIN user_settings THEN user_settings
    ELSE user_settings @@ (user_id :> DefaultSettings)

\* a successful outbound call, as the outside sees it
Call(id, op, chat, mid, body, kb) ==
    [upd |-> id, op |-> op, chat |-> chat, mid |-> mid, body |-> body, kb |-> kb]

\* a bot message in a chat
BotMessage(kind, body, kb) == [kind |-> kind, body |-> body, kb |-> kb, pinned |-> FALSE]

\* what an outbound call may do: return (TRUE) or raise (FALSE)
Outcomes ==
    IF Cardinality({i \in UpdateIds : pc[i] = "failed"}) < MaxFailures THEN BOOLEAN
    ELSE {TRUE}

Suspended(id) == pc[id] \notin {"idle", "done", "failed"}
InFlight == {i \in UpdateIds : Suspended(i)}

SetPc(id, p) == pc' = [pc EXCEPT ![id] = p]

\* message.answer(body): a message into the private chat of user u
AnswerUser(id, u, body) ==
    /\ user_chat' = [user_chat EXCEPT ![u] = Append(@, BotMessage("text", body, NoKeyboard))]
    /\ outbox' = Append(outbox, Call(id, "send_message", u, Len(user_chat[u]) + 1,
                                     body, NoKeyboard))

\* a new bot message in the administrator chat
SendAdmin(id, op, kind, body, kb) ==
    /\ admin_chat' = Append(admin_chat, BotMessage(kind, body, kb))
    /\ outbox' = Append(outbox, Call(id, op, ADMIN_CHAT_ID, Len(admin_chat) + 1, body, kb))

(* ----------------------- handle_user_message -------------------------- *)

\* a classification that takes a photo or a video for a text
KindOfMediaAsText(ev) == IF ev.kind \in {"text", "photo", "video"} THEN "text" ELSE "unsupported"

\* a classification that takes any other content for a photo
KindOfOtherAsPhoto(ev) == IF ev.kind \in {"text", "photo", "video"} THEN ev.kind ELSE "photo"

\* kind, as classified from message.text / message.photo / message.video
KindOf(ev) == IF ev.kind \in {"text", "photo", "video"} THEN ev.kind ELSE "unsupported"

\* a coalescing test that leaves the last second of the window out
CoalescesBefore(user_id, now) ==
    /\ user_id \in DOMAIN last_admin_message
    /\ now - last_admin_message[user_id].time < CoalesceWindow

\* the coalescing test of a text routed at time now
Coalesces(user_id, now) ==
    /\ user_id \in DOMAIN last_admin_message
    /\ now - last_admin_message[user_id].time <= CoalesceWindow

\* the keyboard a coalescing edit puts on the notification
CoalesceKeyboard(user_id) ==
    IF user_id \in banned_users THEN make_unban_keyboard(user_id)
    ELSE make_ban_keyboard(user_id)

\* The code from "sent_msg = None" to the relay call it awaits: the place the
\* handler is suspended at next.
RelayPc(ev, l) ==
    IF KindOf(ev) = "text" THEN
        IF Coalesces(l.user_id, clock) THEN "hum_edit" ELSE "hum_send_text"
    ELSE IF ev.group # 0 /\ ~l.first THEN "hum_send_bare"
    ELSE "hum_send_media"

\* ... and the locals it is suspended with
RelayLoc(ev, l) ==
    IF KindOf(ev) = "text" THEN
        IF Coalesces(l.user_id, clock)
        THEN [l EXCEPT !.now = clock,
                       !.info = last_admin_message[l.user_id],
                       !.text = AddendumBody(last_admin_message[l.user_id].text, ev.text[2]),
                       !.kb = CoalesceKeyboard(l.user_id)]
        ELSE [l EXCEPT !.now = clock,
                       !.text = NewTextBody(l.user_id, l.anon, ev.text[2]),
                       !.kb = make_ban_keyboard(l.user_id)]
    ELSE IF ev.group # 0 /\ ~l.first
        THEN [l EXCEPT !.text = CaptionOf(ev.caption), !.kb = NoKeyboard]
    ELSE [l EXCEPT !.text = NewMediaBody(l.user_id, l.anon, KindOf(ev), ev.caption),
                   !.kb = make_ban_keyboard(l.user_id)]

\* every item of an album is acknowledged
AckDueAlways(ev, first) == TRUE

\* statistics and acknowledgement are due: not an album, or its first item
AckDue(ev, first) == ev.group = 0 \/ first

\* a block check that lets every sender through
SenderBlockedNever(user_id) == FALSE

\* "if user_id in banned_users" of handle_user_message
SenderBlocked(user_id) == user_id \in banned_users

\* the handler up to its first await
HumStart(id, ev) ==
    LET user_id == ev.from_user
        settings == get_user_settings(user_id)[user_id]
        first == ev.group # 0 /\ ev.group \notin handled_media_groups
        l == [NoLoc EXCEPT !.user_id = user_id, !.lang = settings.lang,
                           !.anon = settings.anon, !.first = first]
    IN  /\ user_settings' = get_user_settings(user_id)
        /\ UNCHANGED <<banned_users, ban_log, last_admin_message, message_targets>>
        /\ IF IsCommandText(ev) \/ ev.kind = "pinned_message" THEN
               /\ SetPc(id, "done")
               /\ UNCHANGED <<loc, handled_media_groups, user_message_log>>
           ELSE IF SenderBlocked(user_id) THEN
               /\ SetPc(id, "hum_blocked")
               /\ loc' = [loc EXCEPT ![id] = l]
               /\ UNCHANGED <<handled_media_groups, user_message_log>>
           ELSE
               /\ handled_media_groups' =
                      IF first THEN handled_media_groups \cup {ev.group}
                      ELSE handled_media_groups
               /\ IF KindOf(ev) = "unsupported" THEN
                      /\ SetPc(id, "hum_unsupported")
                      /\ loc' = [loc EXCEPT ![id] = l]
                      /\ UNCHANGED user_message_log
                  ELSE IF AckDue(ev, first) THEN
                      /\ user_message_log' = Append(user_message_log,
                             [user_id |-> user_id, timestamp |-> clock,
                              type |-> KindOf(ev), is_anon |-> settings.anon])
                      /\ SetPc(id, "hum_thanks")
                      /\ loc' = [loc EXCEPT ![id] = l]
                  ELSE
                      /\ UNCHANGED user_message_log
                      /\ SetPc(id, RelayPc(ev, l))
                      /\ loc' = [loc EXCEPT ![id] = RelayLoc(ev, l)]

\* await message.answer(build_blocked_text(lang)) returns or raises
HumBlockedDone(id) ==
    /\ pc[id] = "hum_blocked"
    /\ \E ok \in Outcomes :
         IF ok THEN /\ AnswerUser(id, loc[id].user_id, build_blocked_text(loc[id].lang))
                    /\ SetPc(id, "done")
                    /\ UNCHANGED admin_chat
         ELSE /\ SetPc(id, "failed")
              /\ UNCHANGED world
    /\ UNCHANGED <<processed_updates, stores, clock, updates, deliveries, feeds, loc>>

\* await message.answer(build_unsupported_text(lang)) returns or raises
HumUnsupportedDone(id) ==
    /\ pc[id] = "hum_unsupported"
    /\ \E ok \in Outcomes :
         IF ok THEN /\ AnswerUser(id, loc[id].user_id, build_unsupported_text(loc[id].lang))
                    /\ SetPc(id, "done")
                    /\ UNCHANGED admin_chat
         ELSE /\ SetPc(id, "failed")
              /\ UNCHANGED world
    /\ UNCHANGED <<processed_updates, stores, clock, updates, deliveries, feeds, loc>>

\* await message.answer(build_thanks_text(lang)) returns, and the handler runs
\* on to the relay call; or it raises
HumThanksDone(id) ==
    /\ pc[id] = "hum_thanks"
    /\ \E ok \in Outcomes :
         IF ok THEN /\ AnswerUser(id, loc[id].user_id, build_thanks_text(loc[id].lang))
                    /\ SetPc(id, RelayPc(updates[id], loc[id]))
                    /\ loc' = [loc EXCEPT ![id] = RelayLoc(updates[id], loc[id])]
                    /\ UNCHANGED admin_chat
         ELSE /\ SetPc(id, "failed")
              /\ UNCHANGED <<world, loc>>
    /\ UNCHANGED <<processed_updates, stores, clock, updates, deliveries, feeds>>

\* the notification a coalescing edit leaves in the administrator chat
EditedNotification(old, l) == [old EXCEPT !.body = l.text, !.kb = l.kb]

\* a coalescing edit that extends the text and keeps the old time
CoalescedInfoStale(l) == [l.info EXCEPT !.text = l.text]

\* last_admin_message[user_id] after a coalescing edit
CoalescedInfo(l) == [l.info EXCEPT !.time = l.now, !.text = l.text]

\* await bot.edit_message_caption / bot.edit_message_text returns or raises
HumEditDone(id) ==
    /\ pc[id] = "hum_edit"
    /\ \E ok \in Outcomes :
         LET l == loc[id]
             mid == l.info.message_id
         IN  IF ok THEN
                 /\ admin_chat' = [admin_chat EXCEPT
                                      ![mid] = EditedNotification(admin_chat[mid], l)]
                 /\ outbox' = Append(outbox,
                        Call(id, IF l.info.has_media THEN "edit_message_caption"
                                 ELSE "edit_message_text",
                             l.info.chat_id, mid, l.text, l.kb))
                 /\ last_admin_message' =
                        [u \in DOMAIN last_admin_message \cup {l.user_id} |->
                            IF u = l.user_id THEN CoalescedInfo(l)
                            ELSE last_admin_message[u]]
                 /\ SetPc(id, "done")
                 /\ UNCHANGED user_chat
             ELSE /\ SetPc(id, "failed")
                  /\ UNCHANGED <<world, last_admin_message>>
    /\ UNCHANGED <<processed_updates, user_settings, banned_users, ban_log,
                   user_message_log, handled_media_groups, message_targets,
                   clock, updates, deliveries, feeds, loc>>

\* last_admin_message[user_id] for a new notification
NewInfo(mid, text, time, has_media, anon) ==
    [chat_id |-> ADMIN_CHAT_ID, message_id |-> mid, text |-> text, time |-> time,
     has_media |-> has_media, is_anon |-> anon]

\* a relay that binds nothing
BindTargetNothing(mid, user_id) == message_targets

\* message_targets after "if sent_msg: message_targets[...] = user_id"
BindTarget(mid, user_id) ==
    [k \in DOMAIN message_targets \cup {<<ADMIN_CHAT_ID, mid>>} |->
        IF k = <<ADMIN_CHAT_ID, mid>> THEN user_id ELSE message_targets[k]]

\* the stores after a new notification mid was sent
Relayed(l, mid, time, has_media) ==
    /\ last_admin_message' =
           [u \in DOMAIN last_admin_message \cup {l.user_id} |->
               IF u = l.user_id THEN NewInfo(mid, l.text, time, has_media, l.anon)
               ELSE last_admin_message[u]]
    /\ message_targets' = BindTarget(mid, l.user_id)

\* await bot.send_message(ADMIN_CHAT_ID, base_text, ban keyboard) returns or raises
HumSendTextDone(id) ==
    /\ pc[id] = "hum_send_text"
    /\ \E ok \in Outcomes :
         IF ok THEN /\ SendAdmin(id, "send_message", "text", loc[id].text, loc[id].kb)
                    /\ Relayed(loc[id], Len(admin_chat) + 1, loc[id].now, FALSE)
                    /\ SetPc(id, "done")
                    /\ UNCHANGED user_chat
         ELSE /\ SetPc(id, "failed")
              /\ UNCHANGED <<world, last_admin_message, message_targets>>
    /\ UNCHANGED <<processed_updates, user_settings, banned_users, ban_log,
                   user_message_log, handled_media_groups,
                   clock, updates, deliveries, feeds, loc>>

\* await bot.send_photo / bot.send_video with admin_caption and the ban
\* keyboard returns or raises
HumSendMediaDone(id) ==
    /\ pc[id] = "hum_send_media"
    /\ \E ok \in Outcomes :
         LET kind == KindOf(updates[id])
         IN  IF ok THEN
                 /\ SendAdmin(id, IF kind = "photo" THEN "send_photo" ELSE "send_video",
                              kind, loc[id].text, loc[id].kb)
                 /\ Relayed(loc[id], Len(admin_chat) + 1, clock, TRUE)
                 /\ SetPc(id, "done")
                 /\ UNCHANGED user_chat
             ELSE /\ SetPc(id, "failed")
                  /\ UNCHANGED <<world, last_admin_message, message_targets>>
    /\ UNCHANGED <<processed_updates, user_settings, banned_users, ban_log,
                   user_message_log, handled_media_groups,
                   clock, updates, deliveries, feeds, loc>>

\* await bot.send_photo / bot.send_video of a later album item returns or raises
HumSendBareDone(id) ==
    /\ pc[id] = "hum_send_bare"
    /\ \E ok \in Outcomes :
         LET kind == KindOf(updates[id])
         IN  IF ok THEN
                 /\ SendAdmin(id, IF kind = "photo" THEN "send_photo" ELSE "send_video",
                              kind, loc[id].text, loc[id].kb)
                 /\ SetPc(id, "done")
                 /\ UNCHANGED user_chat
             ELSE /\ SetPc(id, "failed")
                  /\ UNCHANGED world
    /\ UNCHANGED <<processed_updates, stores, clock, updates, deliveries, feeds, loc>>

(* ------------------------ handle_admin_reply -------------------------- *)

\* a lookup by message id alone that falls back to the sender of the latest
\* relayed message
TargetOfLatest(chat_id, mid) ==
    IF <<chat_id, mid>> \in DOMAIN message_targets THEN message_targets[<<chat_id, mid>>]
    ELSE IF Len(user_message_log) > 0 THEN user_message_log[Len(user_message_log)].user_id
    ELSE 0

\* message_targets.get(key), 0 for None
TargetOf(chat_id, mid) ==
    IF <<chat_id, mid>> \in DOMAIN message_targets THEN message_targets[<<chat_id, mid>>]
    ELSE 0

\* what the reply carries to the user, after the header
ReplyBody(ev, lang) ==
    build_answer_header(lang) \o
    (IF ev.kind = "text" THEN TextOf(ev.text[2])
     ELSE IF ev.kind \in {"photo", "video"} THEN CaptionOf(ev.caption)
     ELSE <<<<"reply_placeholder", 0>>>>)

ReplyOp(ev) ==
    IF ev.kind = "photo" THEN "send_photo"
    ELSE IF ev.kind = "video" THEN "send_video"
    ELSE "send_message"

\* a block check that looks at who replies instead of who is replied to
TargetBlockedAsSender(ev, user_id) == ev.from_user \in banned_users

\* "if user_id in banned_users" of handle_admin_reply
TargetBlocked(ev, user_id) == user_id \in banned_users

\* the handler up to its first await
HarStart(id, ev) ==
    LET user_id == TargetOf(ADMIN_CHAT_ID, ev.reply_to)
    IN  /\ UNCHANGED <<banned_users, ban_log, user_message_log, last_admin_message,
                       handled_media_groups, message_targets>>
        /\ IF user_id = 0 THEN
               /\ SetPc(id, "done")
               /\ UNCHANGED <<loc, user_settings>>
           ELSE
               /\ user_settings' = get_user_settings(user_id)
               /\ loc' = [loc EXCEPT ![id] =
                      [NoLoc EXCEPT !.user_id = user_id,
                                    !.lang = get_user_settings(user_id)[user_id].lang,
                                    !.text = ReplyBody(ev,
                                        get_user_settings(user_id)[user_id].lang)]]
               /\ SetPc(id, IF TargetBlocked(ev, user_id) THEN "har_suppress"
                            ELSE "har_send")

\* await message.reply("... ответ не отправлен.") returns or raises
HarSuppressDone(id) ==
    /\ pc[id] = "har_suppress"
    /\ \E ok \in Outcomes :
         IF ok THEN /\ SendAdmin(id, "send_message", "text", SuppressedNotice, NoKeyboard)
                    /\ SetPc(id, "done")
                    /\ UNCHANGED user_chat
         ELSE /\ SetPc(id, "failed")
              /\ UNCHANGED world
    /\ UNCHANGED <<processed_updates, stores, clock, updates, deliveries, feeds, loc>>

\* await bot.send_message / send_photo / send_video to the user returns, and
\* the handler goes on to the acknowledgement; or it raises
HarSendDone(id) ==
    /\ pc[id] = "har_send"
    /\ \E ok \in Outcomes :
         LET u == loc[id].user_id
             kind == IF updates[id].kind \in {"photo", "video"} THEN updates[id].kind
                     ELSE "text"
         IN  IF ok THEN
                 /\ user_chat' = [user_chat EXCEPT
                        ![u] = Append(@, BotMessage(kind, loc[id].text, NoKeyboard))]
                 /\ outbox' = Append(outbox, Call(id, ReplyOp(updates[id]), u,
                                     Len(user_chat[u]) + 1, loc[id].text, NoKeyboard))
                 /\ SetPc(id, "har_ack")
                 /\ UNCHANGED admin_chat
             ELSE /\ SetPc(id, "failed")
                  /\ UNCHANGED world
    /\ UNCHANGED <<processed_updates, stores, clock, updates, deliveries, feeds, loc>>

\* await message.reply("✅ Ответ отправлен пользователю.") returns or raises
HarAckDone(id) ==
    /\ pc[id] = "har_ack"
    /\ \E ok \in Outcomes :
         IF ok THEN /\ SendAdmin(id, "send_message", "text", ReplySentNotice, NoKeyboard)
                    /\ SetPc(id, "done")
                    /\ UNCHANGED user_chat
         ELSE /\ SetPc(id, "failed")
              /\ UNCHANGED world
    /\ UNCHANGED <<processed_updates, stores, clock, updates, deliveries, feeds, loc>>

(* ------------------------ ban / unban buttons ------------------------- *)

\* the alert a handler answers with when int(user_id_str) raises
ParseErrorNotice(handler) ==
    IF handler \in {"handle_ban_cancel", "handle_unban_cancel"}
    THEN <<<<"cancelled", 0>>>>
    ELSE <<<<"cannot_read_user_id", 1>>>>

\* the keyboard a handler puts on the message its button was pressed on
ButtonKeyboard(handler, target) ==
    IF handler = "handle_ban_button" THEN make_ban_confirm_keyboard(target)
    ELSE IF handler = "handle_ban_confirm" THEN make_unban_keyboard(target)
    ELSE IF handler = "handle_ban_cancel" THEN make_ban_keyboard(target)
    ELSE IF handler = "handle_unban_button" THEN make_unban_confirm_keyboard(target)
    ELSE IF handler = "handle_unban_confirm" THEN make_ban_keyboard(target)
    ELSE make_unban_keyboard(target)

\* the text of the final callback.answer
ButtonNotice(handler) ==
    IF handler = "handle_ban_button" THEN <<<<"confirm_ban_question", 0>>>>
    ELSE IF handler = "handle_ban_confirm" THEN <<<<"added_to_blacklist", 0>>>>
    ELSE IF handler = "handle_ban_cancel" THEN <<<<"ban_cancelled", 0>>>>
    ELSE IF handler = "handle_unban_button" THEN <<<<"confirm_unban_question", 0>>>>
    ELSE IF handler = "handle_unban_confirm" THEN <<<<"removed_from_blacklist", 0>>>>
    ELSE <<<<"unban_cancelled", 0>>>>

\* an unban confirmation that leaves the user in banned_users
BannedAfterNoDiscard(handler, target) ==
    IF handler = "handle_ban_confirm" THEN banned_users \cup {target}
    ELSE banned_users

\* a ban button that blocks before the confirmation
BannedAfterEager(handler, target) ==
    IF handler \in {"handle_ban_button", "handle_ban_confirm"} THEN banned_users \cup {target}
    ELSE IF handler = "handle_unban_confirm" THEN banned_users \ {target}
    ELSE banned_users

\* banned_users after the handler's synchronous part
BannedAfter(handler, target) ==
    IF handler = "handle_ban_confirm" THEN banned_users \cup {target}
    ELSE IF handler = "handle_unban_confirm" THEN banned_users \ {target}
    ELSE banned_users

\* ban_log.pop(target_user_id, None)
BanLogPop(target) == [u \in DOMAIN ban_log \ {target} |-> ban_log[u]]

\* one of the six button handlers, up to its first await
ButtonStart(id, ev, handler) ==
    LET parsed == ParseTarget(ev.data)
        target == parsed.val
        l == [NoLoc EXCEPT !.user_id = target, !.msg = ev.msg_id, !.ts = clock,
                           !.ret = handler,
                           !.kb = ButtonKeyboard(handler, target),
                           !.text = ButtonNotice(handler)]
    IN  /\ UNCHANGED <<user_settings, user_message_log, last_admin_message,
                       handled_media_groups, message_targets>>
        /\ IF ~parsed.ok THEN
               /\ SetPc(id, "cb_alert")
               /\ loc' = [loc EXCEPT ![id] =
                      [NoLoc EXCEPT !.msg = ev.msg_id, !.ret = handler,
                                    !.text = ParseErrorNotice(handler)]]
               /\ UNCHANGED <<banned_users, ban_log>>
           ELSE
               /\ banned_users' = BannedAfter(handler, target)
               /\ ban_log' = IF handler = "handle_unban_confirm" THEN BanLogPop(target)
                             ELSE ban_log
               /\ loc' = [loc EXCEPT ![id] = l]
               /\ SetPc(id, IF handler = "handle_ban_confirm" THEN "hbc_get_chat"
                            ELSE "cb_markup")

\* await callback.answer(<parse error>) returns or raises
CbAlertDone(id) ==
    /\ pc[id] = "cb_alert"
    /\ \E ok \in Outcomes :
         IF ok THEN /\ outbox' = Append(outbox, Call(id, "answer_callback", ADMIN_CHAT_ID,
                                       loc[id].msg, loc[id].text, NoKeyboard))
                    /\ SetPc(id, "done")
         ELSE /\ SetPc(id, "failed")
              /\ UNCHANGED outbox
    /\ UNCHANGED <<processed_updates, stores, clock, admin_chat, user_chat,
                   updates, deliveries, feeds, loc>>

\* ban_log[target_user_id] as handle_ban_confirm writes it; 0 stands for None
BanLogEntry(ts, target, found) ==
    [timestamp |-> ts,
     name |-> IF found THEN FullName(target) ELSE 0,
     username |-> IF found /\ HasUsername(target) THEN target ELSE 0]

\* await bot.get_chat(target_user_id) returns or raises (the raise is caught);
\* the audit entry is written and the handler goes on to edit the keyboard
HbcGetChatDone(id) ==
    /\ pc[id] = "hbc_get_chat"
    /\ \E ok \in Outcomes :
         LET target == loc[id].user_id
         IN  ban_log' = [u \in DOMAIN ban_log \cup {target} |->
                            IF u = target THEN BanLogEntry(loc[id].ts, target, ok)
                            ELSE ban_log[u]]
    /\ SetPc(id, "cb_markup")
    /\ UNCHANGED <<processed_updates, user_settings, banned_users, user_message_log,
                   last_admin_message, handled_media_groups, message_targets,
                   clock, world, updates, deliveries, feeds, loc>>

\* await callback.message.edit_reply_markup(kb) returns, and the handler goes
\* on to callback.answer; or it raises
CbMarkupDone(id) ==
    /\ pc[id] = "cb_markup"
    /\ \E ok \in Outcomes :
         IF ok THEN
             /\ admin_chat' = [admin_chat EXCEPT ![loc[id].msg].kb = loc[id].kb]
             /\ outbox' = Append(outbox, Call(id, "edit_reply_markup", ADMIN_CHAT_ID,
                                 loc[id].msg, <<>>, loc[id].kb))
             /\ SetPc(id, "cb_answer")
         ELSE /\ SetPc(id, "failed")
              /\ UNCHANGED <<admin_chat, outbox>>
    /\ UNCHANGED <<processed_updates, stores, clock, user_chat,
                   updates, deliveries, feeds, loc>>

\* await callback.answer(<notice>) returns or raises
CbAnswerDone(id) ==
    /\ pc[id] = "cb_answer"
    /\ \E ok \in Outcomes :
         IF ok THEN /\ outbox' = Append(outbox, Call(id, "answer_callback", ADMIN_CHAT_ID,
                                       loc[id].msg, loc[id].text, NoKeyboard))
                    /\ SetPc(id, "done")
         ELSE /\ SetPc(id, "failed")
              /\ UNCHANGED outbox
    /\ UNCHANGED <<processed_updates, stores, clock, admin_chat, user_chat,
                   updates, deliveries, feeds, loc>>

(* ------------------ ensure_status_message, cmd_anon ------------------- *)

\* user_settings with one field of user_id's record assigned
SetSetting(st, user_id, field, value) ==
    [u \in DOMAIN st |->
        IF u = user_id THEN
            [lang |-> IF field = "lang" THEN value ELSE st[u].lang,
             anon |-> IF field = "anon" THEN value ELSE st[u].anon,
             status_msg_id |-> IF field = "status_msg_id" THEN value
                               ELSE st[u].status_msg_id]
        ELSE st[u]]

\* ensure_status_message up to its first await, on the settings st: the place
\* it is suspended at
EnsurePc(st, user_id) ==
    IF st[user_id].status_msg_id # 0 THEN "esm_edit" ELSE "esm_send"

\* the answer cmd_anon gives after ensure_status_message has returned
AnonAnswer(ev, lang, anon_now) ==
    IF ev.text[2] = 0 THEN
        IF anon_now THEN build_anon_on_text(lang) ELSE build_anon_off_text(lang)
    ELSE IF ev.text[2] = 1 THEN build_anon_on_text(lang)
    ELSE build_anon_off_text(lang)

\* a /anon that leaves the flag of a blocked user as it is
AnonAfterUnlessBlocked(ev, anon) ==
    IF ev.from_user \in banned_users THEN anon
    ELSE IF ev.text[2] = 0 THEN ~anon
    ELSE IF ev.text[2] = 1 THEN TRUE
    ELSE IF ev.text[2] = 2 THEN FALSE
    ELSE anon

\* settings["anon"] as cmd_anon sets it: message.text is "/anon" (0),
\* "/anon on" (1), "/anon off" (2); any other argument (3) leaves it
AnonAfter(ev, anon) ==
    IF ev.text[2] = 0 THEN ~anon
    ELSE IF ev.text[2] = 1 THEN TRUE
    ELSE IF ev.text[2] = 2 THEN FALSE
    ELSE anon

\* cmd_anon up to its first await
CmdAnonStart(id, ev) ==
    LET user_id == ev.from_user
        st0 == get_user_settings(user_id)
        lang == st0[user_id].lang
        st1 == SetSetting(st0, user_id, "anon", AnonAfter(ev, st0[user_id].anon))
    IN  /\ UNCHANGED <<banned_users, ban_log, user_message_log, last_admin_message,
                       handled_media_groups, message_targets>>
        /\ user_settings' = st1
        /\ IF ev.text[2] \in {0, 1, 2} THEN
               /\ SetPc(id, EnsurePc(st1, user_id))
               /\ loc' = [loc EXCEPT ![id] =
                      [NoLoc EXCEPT !.user_id = user_id, !.lang = lang,
                                    !.ret = "cmd_anon",
                                    !.msg = st1[user_id].status_msg_id,
                                    !.text = build_status_text(st1[user_id].lang,
                                                               st1[user_id].anon)]]
           ELSE
               /\ SetPc(id, "ca_answer")
               /\ loc' = [loc EXCEPT ![id] =
                      [NoLoc EXCEPT !.user_id = user_id, !.lang = lang,
                                    !.ret = "cmd_anon", !.text = AnonUsageText(lang)]]

\* where the caller of ensure_status_message is suspended next
EnsureReturnPc(l) ==
    IF l.ret = "cmd_anon" THEN "ca_answer"
    ELSE IF l.ret = "cb_toggle_anon" THEN "cta_markup"
    ELSE IF l.ret = "cb_set_lang" THEN "csl_edit"
    ELSE "done"

\* ... and with which locals, the settings being st
EnsureReturnLoc(id, l, st) ==
    IF l.ret = "cmd_anon"
    THEN [l EXCEPT !.text = AnonAnswer(updates[id], l.lang, st[l.user_id].anon)]
    ELSE IF l.ret = "cb_toggle_anon"
    THEN [l EXCEPT !.kb = make_start_keyboard(l.lang, st[l.user_id].anon)]
    ELSE IF l.ret = "cb_set_lang"
    THEN [l EXCEPT !.text = build_start_text(l.lang),
                   !.kb = make_start_keyboard(l.lang, st[l.user_id].anon)]
    ELSE l

\* await bot.edit_message_text(status) returns, and ensure_status_message
\* returns to its caller; or it raises and the status is sent anew
EsmEditDone(id) ==
    /\ pc[id] = "esm_edit"
    /\ \E ok \in Outcomes :
         LET l == loc[id]
             u == l.user_id
         IN  IF ok THEN
                 /\ user_chat' = [user_chat EXCEPT ![u][l.msg].body = l.text]
                 /\ outbox' = Append(outbox, Call(id, "edit_message_text", u, l.msg,
                                                  l.text, NoKeyboard))
                 /\ SetPc(id, EnsureReturnPc(l))
                 /\ loc' = [loc EXCEPT ![id] = EnsureReturnLoc(id, l, user_settings)]
             ELSE /\ SetPc(id, "esm_send")
                  /\ UNCHANGED <<user_chat, outbox, loc>>
    /\ UNCHANGED <<processed_updates, stores, clock, admin_chat,
                   updates, deliveries, feeds>>

\* await bot.send_message(user_id, status) returns, and the message is about
\* to be pinned; or it raises
EsmSendDone(id) ==
    /\ pc[id] = "esm_send"
    /\ \E ok \in Outcomes :
         LET l == loc[id]
             u == l.user_id
         IN  IF ok THEN
                 /\ AnswerUser(id, u, l.text)
                 /\ loc' = [loc EXCEPT ![id].msg = Len(user_chat[u]) + 1]
                 /\ SetPc(id, "esm_pin")
             ELSE /\ SetPc(id, "failed")
                  /\ UNCHANGED <<user_chat, outbox, loc>>
    /\ UNCHANGED <<processed_updates, stores, clock, admin_chat,
                   updates, deliveries, feeds>>

\* a pin whose failure ends the request before status_msg_id is stored
EsmPinDoneStrict(id) ==
    /\ pc[id] = "esm_pin"
    /\ LET l == loc[id]
           u == l.user_id
           st == SetSetting(user_settings, u, "status_msg_id", l.msg)
       IN  \E ok \in Outcomes :
                IF ok THEN
                    /\ user_chat' = [user_chat EXCEPT ![u][l.msg].pinned = TRUE]
                    /\ outbox' = Append(outbox, Call(id, "pin_chat_message", u, l.msg,
                                                     <<>>, NoKeyboard))
                    /\ user_settings' = st
                    /\ SetPc(id, EnsureReturnPc(l))
                    /\ loc' = [loc EXCEPT ![id] = EnsureReturnLoc(id, l, st)]
                ELSE /\ SetPc(id, "failed")
                     /\ UNCHANGED <<user_chat, outbox, user_settings, loc>>
    /\ UNCHANGED <<processed_updates, banned_users, ban_log, user_message_log,
                   last_admin_message, handled_media_groups, message_targets,
                   clock, admin_chat, updates, deliveries, feeds>>

\* await bot.pin_chat_message returns or raises (the raise is caught);
\* status_msg_id is stored and ensure_status_message returns to its caller
EsmPinDone(id) ==
    /\ pc[id] = "esm_pin"
    /\ LET l == loc[id]
           u == l.user_id
           st == SetSetting(user_settings, u, "status_msg_id", l.msg)
       IN  /\ \E ok \in Outcomes :
                IF ok THEN
                    /\ user_chat' = [user_chat EXCEPT ![u][l.msg].pinned = TRUE]
                    /\ outbox' = Append(outbox, Call(id, "pin_chat_message", u, l.msg,
                                                     <<>>, NoKeyboard))
                ELSE UNCHANGED <<user_chat, outbox>>
           /\ user_settings' = st
           /\ SetPc(id, EnsureReturnPc(l))
           /\ loc' = [loc EXCEPT ![id] = EnsureReturnLoc(id, l, st)]
    /\ UNCHANGED <<processed_updates, banned_users, ban_log, user_message_log,
                   last_admin_message, handled_media_groups, message_targets,
                   clock, admin_chat, updates, deliveries, feeds>>

\* await message.answer(<anon on / off / usage>) returns or raises
CaAnswerDone(id) ==
    /\ pc[id] = "ca_answer"
    /\ \E ok \in Outcomes :
         IF ok THEN /\ AnswerUser(id, loc[id].user_id, loc[id].text)
                    /\ SetPc(id, "done")
                    /\ UNCHANGED admin_chat
         ELSE /\ SetPc(id, "failed")
              /\ UNCHANGED world
    /\ UNCHANGED <<processed_updates, stores, clock, updates, deliveries, feeds, loc>>

(* ------------------ cmd_start, cb_toggle_anon, cb_set_lang ------------ *)

\* a status text that shows the anonymity the user does not have
EnsureLocInverted(l, st) ==
    [l EXCEPT !.msg = st[l.user_id].status_msg_id,
              !.text = build_status_text(st[l.user_id].lang, ~st[l.user_id].anon)]

\* the locals ensure_status_message starts with, the settings being st
EnsureLoc(l, st) ==
    [l EXCEPT !.msg = st[l.user_id].status_msg_id,
              !.text = build_status_text(st[l.user_id].lang, st[l.user_id].anon)]

\* cmd_start up to its first await
CmdStartStart(id, ev) ==
    LET user_id == ev.from_user
        st == get_user_settings(user_id)
    IN  /\ user_settings' = st
        /\ UNCHANGED <<banned_users, ban_log, user_message_log, last_admin_message,
                       handled_media_groups, message_targets>>
        /\ SetPc(id, "cst_answer")
        /\ loc' = [loc EXCEPT ![id] =
               [NoLoc EXCEPT !.user_id = user_id, !.lang = st[user_id].lang,
                             !.anon = st[user_id].anon, !.ret = "cmd_start",
                             !.text = build_start_text(st[user_id].lang),
                             !.kb = make_start_keyboard(st[user_id].lang,
                                                        st[user_id].anon)]]

\* await message.answer(start text, start keyboard) returns, and
\* ensure_status_message runs up to its first await; or it raises
CstAnswerDone(id) ==
    /\ pc[id] = "cst_answer"
    /\ \E ok \in Outcomes :
         LET l == loc[id]
             u == l.user_id
         IN  IF ok THEN
                 /\ user_chat' = [user_chat EXCEPT
                        ![u] = Append(@, BotMessage("text", l.text, l.kb))]
                 /\ outbox' = Append(outbox, Call(id, "send_message", u,
                                     Len(user_chat[u]) + 1, l.text, l.kb))
                 /\ SetPc(id, EnsurePc(user_settings, u))
                 /\ loc' = [loc EXCEPT ![id] = EnsureLoc(l, user_settings)]
             ELSE /\ SetPc(id, "failed")
                  /\ UNCHANGED <<user_chat, outbox, loc>>
    /\ UNCHANGED <<processed_updates, stores, clock, admin_chat,
                   updates, deliveries, feeds>>

\* cb_toggle_anon up to its first await, inside ensure_status_message
CbToggleAnonStart(id, ev) ==
    LET user_id == ev.from_user
        st0 == get_user_settings(user_id)
        st1 == SetSetting(st0, user_id, "anon", ~st0[user_id].anon)
    IN  /\ user_settings' = st1
        /\ UNCHANGED <<banned_users, ban_log, user_message_log, last_admin_message,
                       handled_media_groups, message_targets>>
        /\ SetPc(id, EnsurePc(st1, user_id))
        /\ loc' = [loc EXCEPT ![id] =
               EnsureLoc([NoLoc EXCEPT !.user_id = user_id, !.lang = st1[user_id].lang,
                                       !.ret = "cb_toggle_anon",
                                       !.pressed = ev.msg_id], st1)]

\* the pressed message exists in the user's chat
PressedExists(l) == l.pressed \in 1 .. Len(user_chat[l.user_id])

\* await callback.message.edit_reply_markup(start keyboard) returns or raises
\* (the raise is caught), and the handler goes on to callback.answer
CtaMarkupDone(id) ==
    /\ pc[id] = "cta_markup"
    /\ LET l == loc[id]
           u == l.user_id
       IN  /\ \E ok \in IF PressedExists(l) THEN Outcomes ELSE {FALSE} :
                IF ok THEN
                    /\ user_chat' = [user_chat EXCEPT ![u][l.pressed].kb = l.kb]
                    /\ outbox' = Append(outbox, Call(id, "edit_reply_markup", u,
                                                     l.pressed, <<>>, l.kb))
                ELSE UNCHANGED <<user_chat, outbox>>
           /\ SetPc(id, "cta_answer")
           /\ loc' = [loc EXCEPT ![id].text =
                  IF user_settings[u].anon THEN build_anon_on_text(l.lang)
                  ELSE build_anon_off_text(l.lang)]
    /\ UNCHANGED <<processed_updates, stores, clock, admin_chat,
                   updates, deliveries, feeds>>

\* await callback.answer(<notice>) of a private button returns or raises
PrivateAnswerDone(id) ==
    /\ pc[id] \in {"cta_answer", "csl_answer", "csl_alert"}
    /\ \E ok \in Outcomes :
         IF ok THEN /\ outbox' = Append(outbox, Call(id, "answer_callback",
                                       loc[id].user_id, loc[id].pressed,
                                       loc[id].text, NoKeyboard))
                    /\ SetPc(id, "done")
         ELSE /\ SetPc(id, "failed")
              /\ UNCHANGED outbox
    /\ UNCHANGED <<processed_updates, stores, clock, admin_chat, user_chat,
                   updates, deliveries, feeds, loc>>

\* lang_code in ("ru", "en")
LangCodeKnown(lang_code) == lang_code \in {CodeRu, CodeEn}

\* cb_set_lang up to its first await
CbSetLangStart(id, ev) ==
    LET user_id == ev.from_user
        st0 == get_user_settings(user_id)
        lang_code == ev.data.arg
        st1 == SetSetting(st0, user_id, "lang", LangOfCode(lang_code))
    IN  /\ UNCHANGED <<banned_users, ban_log, user_message_log, last_admin_message,
                       handled_media_groups, message_targets>>
        /\ IF ~LangCodeKnown(lang_code) THEN
               /\ user_settings' = st0
               /\ SetPc(id, "csl_alert")
               /\ loc' = [loc EXCEPT ![id] =
                      [NoLoc EXCEPT !.user_id = user_id, !.ret = "cb_set_lang",
                                    !.pressed = ev.msg_id,
                                    !.text = UnknownLanguageNotice]]
           ELSE
               /\ user_settings' = st1
               /\ SetPc(id, EnsurePc(st1, user_id))
               /\ loc' = [loc EXCEPT ![id] =
                      EnsureLoc([NoLoc EXCEPT !.user_id = user_id,
                                              !.lang = st1[user_id].lang,
                                              !.ret = "cb_set_lang",
                                              !.pressed = ev.msg_id], st1)]

\* await callback.message.edit_text(start text, start keyboard) returns, and
\* the handler goes on to callback.answer; or it raises (the raise is caught)
\* and the handler goes on to edit the keyboard alone
CslEditDone(id) ==
    /\ pc[id] = "csl_edit"
    /\ LET l == loc[id]
           u == l.user_id
       IN  \E ok \in IF PressedExists(l) THEN Outcomes ELSE {FALSE} :
             IF ok THEN
                 /\ user_chat' = [user_chat EXCEPT ![u][l.pressed].body = l.text,
                                                   ![u][l.pressed].kb = l.kb]
                 /\ outbox' = Append(outbox, Call(id, "edit_message_text", u,
                                                  l.pressed, l.text, l.kb))
                 /\ SetPc(id, "csl_answer")
                 /\ loc' = [loc EXCEPT ![id].text = LanguageSwitchedNotice(l.lang)]
             ELSE /\ SetPc(id, "csl_markup")
                  /\ loc' = [loc EXCEPT ![id].kb =
                         make_start_keyboard(l.lang, user_settings[u].anon)]
                  /\ UNCHANGED <<user_chat, outbox>>
    /\ UNCHANGED <<processed_updates, stores, clock, admin_chat,
                   updates, deliveries, feeds>>

\* await callback.message.edit_reply_markup(start keyboard) returns or raises
\* (the raise is caught), and the handler goes on to callback.answer
CslMarkupDone(id) ==
    /\ pc[id] = "csl_markup"
    /\ LET l == loc[id]
           u == l.user_id
       IN  /\ \E ok \in IF PressedExists(l) THEN Outcomes ELSE {FALSE} :
                IF ok THEN
                    /\ user_chat' = [user_chat EXCEPT ![u][l.pressed].kb = l.kb]
                    /\ outbox' = Append(outbox, Call(id, "edit_reply_markup", u,
                                                     l.pressed, <<>>, l.kb))
                ELSE UNCHANGED <<user_chat, outbox>>
           /\ SetPc(id, "csl_answer")
           /\ loc' = [loc EXCEPT ![id].text = LanguageSwitchedNotice(l.lang)]
    /\ UNCHANGED <<processed_updates, stores, clock, admin_chat,
                   updates, deliveries, feeds>>

(* ------------------------------ statistics ---------------------------- *)

\* the seconds in "24 * 60 * 60", "7 * 24 * 60 * 60" and "30 * 24 * 60 * 60"
DaySeconds == 86400
WeekSeconds == 604800
MonthSeconds == 2592000

\* the periods of the statistics menu, as the text after "stats:"
PeriodDay == <<"d", "a", "y">>
PeriodWeek == <<"w", "e", "e", "k">>
PeriodMonth == <<"m", "o", "n", "t", "h">>
PeriodAll == <<"a", "l", "l">>
PeriodBack == <<"b", "a", "c", "k">>

StatsData(period) == [prefix |-> "stats", arg |-> period]

make_stats_menu_keyboard ==
    <<StatsData(PeriodDay), StatsData(PeriodWeek), StatsData(PeriodMonth),
      StatsData(PeriodAll)>>
make_stats_back_keyboard == <<StatsData(PeriodBack)>>

StatsMenuText == <<<<"stats_choose_period", 0>>>>

build_stats_period_label(period) ==
    IF period = PeriodDay THEN 1
    ELSE IF period = PeriodWeek THEN 2
    ELSE IF period = PeriodMonth THEN 3
    ELSE 4

\* a cutoff that leaves out the events exactly one window old
CutoffAfter(period, now) ==
    IF period = PeriodDay THEN now - DaySeconds + 1
    ELSE IF period = PeriodWeek THEN now - WeekSeconds + 1
    ELSE IF period = PeriodMonth THEN now - MonthSeconds + 1
    ELSE 0

\* cutoff of build_stats_text at time now
Cutoff(period, now) ==
    IF period = PeriodDay THEN now - DaySeconds
    ELSE IF period = PeriodWeek THEN now - WeekSeconds
    ELSE IF period = PeriodMonth THEN now - MonthSeconds
    ELSE 0

\* [e for e in user_message_log if e["timestamp"] >= cutoff]
Filtered(period, now) ==
    SelectSeq(user_message_log, LAMBDA e : e.timestamp >= Cutoff(period, now))

\* sum(1 for e in filtered if e["type"] == type)
CountType(filtered, type) ==
    Cardinality({i \in 1 .. Len(filtered) : filtered[i].type = type})

build_stats_text(period, now) ==
    LET filtered == Filtered(period, now)
        label == build_stats_period_label(period)
    IN  IF Len(filtered) = 0 THEN <<<<"stats_no_messages", label>>>>
        ELSE << <<"stats_label", label>>,
                <<"stats_total", Len(filtered)>>,
                <<"stats_users",
                  Cardinality({filtered[i].user_id : i \in 1 .. Len(filtered)})>>,
                <<"stats_text", CountType(filtered, "text")>>,
                <<"stats_photo", CountType(filtered, "photo")>>,
                <<"stats_video", CountType(filtered, "video")>>,
                <<"stats_anon_users",
                  Cardinality({filtered[i].user_id :
                                 i \in {k \in 1 .. Len(filtered) : filtered[k].is_anon}})>>,
                <<"stats_banned", Cardinality(banned_users)>> >>

\* cmd_stats up to its await
CmdStatsStart(id, ev) ==
    /\ SetPc(id, "cs_reply")
    /\ loc' = [loc EXCEPT ![id] =
           [NoLoc EXCEPT !.ret = "cmd_stats", !.text = StatsMenuText,
                         !.kb = make_stats_menu_keyboard]]
    /\ UNCHANGED stores

\* await message.reply("Выберите период ...", menu keyboard) returns or raises
CmdStatsDone(id) ==
    /\ pc[id] = "cs_reply"
    /\ \E ok \in Outcomes :
         IF ok THEN /\ SendAdmin(id, "send_message", "text", loc[id].text, loc[id].kb)
                    /\ SetPc(id, "done")
                    /\ UNCHANGED user_chat
         ELSE /\ SetPc(id, "failed")
              /\ UNCHANGED world
    /\ UNCHANGED <<processed_updates, stores, clock, updates, deliveries, feeds, loc>>

\* handle_stats_callback up to its first await
StatsCallbackStart(id, ev) ==
    LET period == ev.data.arg
    IN  /\ SetPc(id, "hsc_edit")
        /\ loc' = [loc EXCEPT ![id] =
               IF period = PeriodBack
               THEN [NoLoc EXCEPT !.ret = "handle_stats_callback", !.msg = ev.msg_id,
                                  !.ts = clock, !.text = StatsMenuText,
                                  !.kb = make_stats_menu_keyboard]
               ELSE [NoLoc EXCEPT !.ret = "handle_stats_callback", !.msg = ev.msg_id,
                                  !.ts = clock, !.text = build_stats_text(period, clock),
                                  !.kb = make_stats_back_keyboard]]
        /\ UNCHANGED stores

\* await callback.message.edit_text(text, keyboard) returns, and the handler
\* goes on to callback.answer(); or it raises
HscEditDone(id) ==
    /\ pc[id] = "hsc_edit"
    /\ \E ok \in Outcomes :
         IF ok THEN
             /\ admin_chat' = [admin_chat EXCEPT ![loc[id].msg].body = loc[id].text,
                                                 ![loc[id].msg].kb = loc[id].kb]
             /\ outbox' = Append(outbox, Call(id, "edit_message_text", ADMIN_CHAT_ID,
                                 loc[id].msg, loc[id].text, loc[id].kb))
             /\ SetPc(id, "cb_answer")
             /\ loc' = [loc EXCEPT ![id].text = <<>>]
         ELSE /\ SetPc(id, "failed")
              /\ UNCHANGED <<admin_chat, outbox, loc>>
    /\ UNCHANGED <<processed_updates, stores, clock, user_chat,
                   updates, deliveries, feeds>>

(* ----------------------------- the webhook ---------------------------- *)

\* dp.feed_update(bot, update): the matching handler runs up to its first await
feed_update(id, ev) ==
    LET h == Handler(ev)
    IN  IF h = "handle_user_message" THEN HumStart(id, ev)
        ELSE IF h = "handle_admin_reply" THEN HarStart(id, ev)
        ELSE IF h = "cmd_anon" THEN CmdAnonStart(id, ev)
        ELSE IF h \in {"handle_ban_button", "handle_ban_confirm", "handle_ban_cancel",
                       "handle_unban_button", "handle_unban_confirm",
                       "handle_unban_cancel"} THEN ButtonStart(id, ev, h)
        ELSE IF h = "cmd_start" THEN CmdStartStart(id, ev)
        ELSE IF h = "cb_toggle_anon" THEN CbToggleAnonStart(id, ev)
        ELSE IF h = "cb_set_lang" THEN CbSetLangStart(id, ev)
        ELSE IF h = "cmd_stats" THEN CmdStatsStart(id, ev)
        ELSE IF h = "handle_stats_callback" THEN StatsCallbackStart(id, ev)
        ELSE SetPc(id, "done") /\ UNCHANGED <<stores, loc>>

\* a webhook that routes again an update whose routing was aborted
AlreadyProcessedUnlessAborted(id) == id \in processed_updates /\ pc[id] # "failed"

\* "update.update_id in processed_updates"
AlreadyProcessed(id) == id \in processed_updates

\* a webhook that forgets to record the update id
MarkProcessedForgets(id) == processed_updates

\* processed_updates after "processed_updates.add(update.update_id)"
MarkProcessed(id) == processed_updates \cup {id}

\* POST WEBHOOK_PATH with update id carrying ev
telegram_webhook(id, ev) ==
    /\ deliveries' = [deliveries EXCEPT ![id] = @ + 1]
    /\ UNCHANGED <<clock, world>>
    /\ IF AlreadyProcessed(id) THEN
           UNCHANGED <<processed_updates, stores, feeds, pc, loc>>
       ELSE
           /\ processed_updates' = MarkProcessed(id)
           /\ feeds' = [feeds EXCEPT ![id] = @ + 1]
           /\ feed_update(id, ev)

\* time passes
Tick ==
    /\ \E d \in TickSteps : clock + d <= MaxTime /\ clock' = clock + d
    /\ UNCHANGED <<processed_updates, stores, world, updates, deliveries, feeds, pc, loc>>

(* ---------------------------- the transport --------------------------- *)

UserText(u, t) == Message("private", u, "text", <<"plain", t>>, 0, 0, 0)
UserMedia(u, kind, c, g) == Message("private", u, kind, NoText, c, g, 0)
AnonCommand(u, k) == Message("private", u, "text", <<"/anon", k>>, 0, 0, 0)
AdminReply(kind, t, c, m) ==
    Message("admin", 0, kind, IF kind = "text" THEN <<"plain", t>> ELSE NoText, c, 0, m)
ButtonPress(m, i) == Callback("admin", 0, admin_chat[m].kb[i], m)

\* number of updates so far that satisfy P
CountUpdates(P(_)) == Cardinality({i \in 1 .. Len(updates) : P(updates[i])})

IsUserMessage(ev) == ev.type = "message" /\ ev.chat = "private"
IsAdminMessage(ev) == ev.type = "message" /\ ev.chat = "admin"
IsCallback(ev) == ev.type = "callback_query"

\* The transport POSTs a new update while fewer than limit requests are
\* suspended in an outbound call.
Deliver(ev, limit, max) ==
    /\ Len(updates) < max
    /\ Cardinality(InFlight) < limit
    /\ updates' = Append(updates, ev)
    /\ telegram_webhook(Len(updates) + 1, ev)

\* a private text message
DeliverUserText(users, texts, limit, max) ==
    \E u \in users, t \in texts : Deliver(UserText(u, t), limit, max)

\* a private photo or video, alone or as an item of an album
DeliverUserMedia(users, groups, limit, max) ==
    \E u \in users, kind \in {"photo", "video"}, g \in groups :
        Deliver(UserMedia(u, kind, 0, g), limit, max)

\* a private message that is neither text nor photo nor video
DeliverUnsupported(users, groups, limit, max) ==
    \E u \in users, g \in groups : Deliver(UserMedia(u, "document", 0, g), limit, max)

\* /anon, /anon on, /anon off, /anon <other>
DeliverAnonCommand(users, args, limit, max) ==
    \E u \in users, k \in args : Deliver(AnonCommand(u, k), limit, max)

\* a private text whose first word is a command other than /anon, alone or
\* with an argument
OtherCommand(u, tag, k) == Message("private", u, "text", <<tag, k>>, 0, 0, 0)
DeliverOtherCommand(users, tags, args, limit, max) ==
    \E u \in users, tag \in tags, k \in args : Deliver(OtherCommand(u, tag, k), limit, max)

\* a user presses a button under a bot message of their chat
PrivatePress(u, m, i) ==
    Callback("private", u, [prefix |-> user_chat[u][m].kb[i].prefix,
                            arg |-> user_chat[u][m].kb[i].arg], m)
DeliverPrivatePress(users, limit, max) ==
    \E u \in users : \E m \in 1 .. Len(user_chat[u]) :
        \E i \in 1 .. Len(user_chat[u][m].kb) : Deliver(PrivatePress(u, m, i), limit, max)

\* /start, /anon and a press of a button of the start message, from a user
\* who is blocked
DeliverBlockedSender(users, limit, max) ==
    \E u \in users \cap banned_users :
        \/ Deliver(OtherCommand(u, "/start", 0), limit, max)
        \/ \E k \in {0, 1, 2} : Deliver(AnonCommand(u, k), limit, max)
        \/ \E m \in 1 .. Len(user_chat[u]) : \E i \in 1 .. Len(user_chat[u][m].kb) :
               Deliver(PrivatePress(u, m, i), limit, max)

\* payloads after the colon that are no integer, and a language code that is
\* neither ru nor en
BadArgs == {<<>>, <<"a", "b", "c">>, <<"1", "x">>}
BadCodes == {<<"d", "e">>}
BanPrefixes == {"ban", "banconfirm", "bancancel", "unban", "unbanconfirm", "unbancancel"}

\* The webhook accepts whatever update is POSTed to it: a callback query of
\* the administrator chat with a payload no button of the bot carries, about
\* message m or about a message the bot has not sent (0).
DeliverBadButtonPress(limit, max) ==
    \E prefix \in BanPrefixes, arg \in BadArgs, m \in 0 .. Len(admin_chat) :
        Deliver(Callback("admin", 0, [prefix |-> prefix, arg |-> arg], m), limit, max)

\* ... and a callback query of a private chat with an unknown language code
DeliverBadLangPress(users, limit, max) ==
    \E u \in users, code \in BadCodes : \E m \in 0 .. Len(user_chat[u]) :
        Deliver(Callback("private", u, [prefix |-> "lang", arg |-> code], m), limit, max)

\* an administrator replies to a bot message of the administrator chat
DeliverAdminReply(kinds, limit, max) ==
    \E kind \in kinds, m \in 1 .. Len(admin_chat) :
        /\ CountUpdates(IsAdminMessage) < MaxReplies
        /\ Deliver(AdminReply(kind, 1, 0, m), limit, max)

\* an administrator presses a button under a bot message
DeliverButtonPress(limit, max) ==
    \E m \in 1 .. Len(admin_chat) : \E i \in 1 .. Len(admin_chat[m].kb) :
        Deliver(ButtonPress(m, i), limit, max)

\* an administrator sends /stats into the administrator chat
DeliverStatsCommand(limit, max) ==
    Deliver(Message("admin", 0, "text", <<"/stats", 0>>, 0, 0, 0), limit, max)

\* an administrator presses a button of the statistics menu
DeliverStatsPress(limit, max) ==
    \E m \in 1 .. Len(admin_chat) : \E i \in 1 .. Len(admin_chat[m].kb) :
        /\ admin_chat[m].kb[i].prefix = "stats"
        /\ Deliver(ButtonPress(m, i), limit, max)

\* the moments the statistics specification looks at the log
StatsTimes == {0, 1, 86401, 604801, 2592001}

\* time passes, up to the next of these moments or beyond
TickStats ==
    /\ \E t \in StatsTimes : t > clock /\ clock' = t
    /\ UNCHANGED <<processed_updates, stores, world, updates, deliveries, feeds, pc, loc>>

\* the transport POSTs an update again
Redeliver ==
    \E id \in 1 .. Len(updates) :
        /\ deliveries[id] < MaxDeliveries
        /\ UNCHANGED updates
        /\ telegram_webhook(id, updates[id])

(* --------------------------- specifications --------------------------- *)

\* Overlapping webhook requests: texts and album items of the users and the
\* button presses of an administrator.
Next ==
    \/ DeliverUserText(Users, {1}, MaxInFlight, MaxOverlapping)
    \/ DeliverUserMedia({1}, {0, 1}, MaxInFlight, MaxOverlapping)
    \/ DeliverButtonPress(MaxInFlight, MaxOverlapping)
    \/ \E id \in UpdateIds : HumThanksDone(id)
    \/ \E id \in UpdateIds : HumEditDone(id)
    \/ \E id \in UpdateIds : HumSendTextDone(id)
    \/ \E id \in UpdateIds : HumSendMediaDone(id)
    \/ \E id \in UpdateIds : HumSendBareDone(id)
    \/ \E id \in UpdateIds : HbcGetChatDone(id)
    \/ \E id \in UpdateIds : CbMarkupDone(id)
    \/ \E id \in UpdateIds : CbAnswerDone(id)

Spec == Init /\ [][Next]_vars

\* Overlapping webhook requests with re-deliveries of the same update.
NextDedup ==
    \/ DeliverUserText({1}, {1}, MaxInFlight, MaxOverlapping)
    \/ DeliverUserMedia({1}, MediaGroups, MaxInFlight, MaxOverlapping)
    \/ Redeliver
    \/ \E id \in UpdateIds : HumThanksDone(id)
    \/ \E id \in UpdateIds : HumEditDone(id)
    \/ \E id \in UpdateIds : HumSendTextDone(id)
    \/ \E id \in UpdateIds : HumSendMediaDone(id)
    \/ \E id \in UpdateIds : HumSendBareDone(id)

SpecDedup == Init /\ [][NextDedup]_vars

\* One request at a time: texts, photos and videos of a user, /anon commands,
\* and the passing of time.
NextRelay ==
    \/ DeliverUserText({1}, TextIds, 1, MaxRelay)
    \/ DeliverAnonCommand({1}, {0}, 1, MaxRelay)
    \/ Tick
    \/ \E id \in UpdateIds : HumThanksDone(id)
    \/ \E id \in UpdateIds : HumEditDone(id)
    \/ \E id \in UpdateIds : HumSendTextDone(id)
    \/ \E id \in UpdateIds : EsmEditDone(id)
    \/ \E id \in UpdateIds : EsmSendDone(id)
    \/ \E id \in UpdateIds : EsmPinDone(id)
    \/ \E id \in UpdateIds : CaAnswerDone(id)

SpecRelay == Init /\ [][NextRelay]_vars

\* One request at a time: albums of a user, and the buttons of an administrator.
NextBatch ==
    \/ DeliverUserMedia({1}, MediaGroups, 1, MaxBatch)
    \/ DeliverUnsupported({1}, MediaGroups, 1, MaxBatch)
    \/ DeliverButtonPress(1, MaxBatch)
    \/ \E id \in UpdateIds : HumBlockedDone(id)
    \/ \E id \in UpdateIds : HumUnsupportedDone(id)
    \/ \E id \in UpdateIds : HumThanksDone(id)
    \/ \E id \in UpdateIds : HumSendMediaDone(id)
    \/ \E id \in UpdateIds : HumSendBareDone(id)
    \/ \E id \in UpdateIds : HbcGetChatDone(id)
    \/ \E id \in UpdateIds : CbMarkupDone(id)
    \/ \E id \in UpdateIds : CbAnswerDone(id)

SpecBatch == Init /\ [][NextBatch]_vars

\* One request at a time: texts of the users, replies and button presses of an
\* administrator.
NextBlock ==
    \/ DeliverUserText(Users, {1}, 1, MaxUpdates)
    \/ DeliverAdminReply({"text"}, 1, MaxUpdates)
    \/ DeliverButtonPress(1, MaxUpdates)
    \/ \E id \in UpdateIds : HumBlockedDone(id)
    \/ \E id \in UpdateIds : HumThanksDone(id)
    \/ \E id \in UpdateIds : HumEditDone(id)
    \/ \E id \in UpdateIds : HumSendTextDone(id)
    \/ \E id \in UpdateIds : HarSuppressDone(id)
    \/ \E id \in UpdateIds : HarSendDone(id)
    \/ \E id \in UpdateIds : HarAckDone(id)
    \/ \E id \in UpdateIds : HbcGetChatDone(id)
    \/ \E id \in UpdateIds : CbMarkupDone(id)
    \/ \E id \in UpdateIds : CbAnswerDone(id)

SpecBlock == Init /\ [][NextBlock]_vars

\* One request at a time, over a month: texts of a user, /stats and the
\* buttons of the statistics menu.
NextStats ==
    \/ DeliverUserText({1}, {1}, 1, MaxStats)
    \/ DeliverStatsCommand(1, MaxStats)
    \/ DeliverStatsPress(1, MaxStats)
    \/ TickStats
    \/ \E id \in UpdateIds : HumThanksDone(id)
    \/ \E id \in UpdateIds : HumEditDone(id)
    \/ \E id \in UpdateIds : HumSendTextDone(id)
    \/ \E id \in UpdateIds : CmdStatsDone(id)
    \/ \E id \in UpdateIds : HscEditDone(id)
    \/ \E id \in UpdateIds : CbAnswerDone(id)

SpecStats == Init /\ [][NextStats]_vars

\* One request at a time: texts and commands of a user.
NextCommands ==
    \/ DeliverUserText({1}, {1}, 1, MaxCommands)
    \/ DeliverAnonCommand({1}, {0, 1, 2, 3}, 1, MaxCommands)
    \/ DeliverOtherCommand({1}, {"/anonymous", "/help", "/start"}, {0, 1}, 1, MaxCommands)
    \/ \E id \in UpdateIds : HumThanksDone(id)
    \/ \E id \in UpdateIds : HumEditDone(id)
    \/ \E id \in UpdateIds : HumSendTextDone(id)
    \/ \E id \in UpdateIds : EsmEditDone(id)
    \/ \E id \in UpdateIds : EsmSendDone(id)
    \/ \E id \in UpdateIds : EsmPinDone(id)
    \/ \E id \in UpdateIds : CaAnswerDone(id)
    \/ \E id \in UpdateIds : CstAnswerDone(id)

SpecCommands == Init /\ [][NextCommands]_vars

\* One request at a time: texts of a user, the buttons of an administrator,
\* and callback queries with payloads that cannot be resolved.
NextPayloads ==
    \/ DeliverUserText({1}, {1}, 1, MaxPayloads)
    \/ DeliverButtonPress(1, MaxPayloads)
    \/ DeliverBadButtonPress(1, MaxPayloads)
    \/ DeliverBadLangPress(Users, 1, MaxPayloads)
    \/ \E id \in UpdateIds : HumThanksDone(id)
    \/ \E id \in UpdateIds : HumEditDone(id)
    \/ \E id \in UpdateIds : HumSendTextDone(id)
    \/ \E id \in UpdateIds : HbcGetChatDone(id)
    \/ \E id \in UpdateIds : CbMarkupDone(id)
    \/ \E id \in UpdateIds : CbAnswerDone(id)
    \/ \E id \in UpdateIds : CbAlertDone(id)
    \/ \E id \in UpdateIds : PrivateAnswerDone(id)

SpecPayloads == Init /\ [][NextPayloads]_vars

\* Texts of one user, one request at a time, and the buttons of an
\* administrator, pressed while an earlier press is still suspended in an
\* outbound call.
NextPresses ==
    \/ DeliverUserText({1}, {1}, 1, MaxPresses)
    \/ DeliverButtonPress(MaxInFlight, MaxPresses)
    \/ \E id \in UpdateIds : HumBlockedDone(id)
    \/ \E id \in UpdateIds : HumThanksDone(id)
    \/ \E id \in UpdateIds : HumEditDone(id)
    \/ \E id \in UpdateIds : HumSendTextDone(id)
    \/ \E id \in UpdateIds : HbcGetChatDone(id)
    \/ \E id \in UpdateIds : CbMarkupDone(id)
    \/ \E id \in UpdateIds : CbAnswerDone(id)

SpecPresses == Init /\ [][NextPresses]_vars

\* One request at a time: a text of a user, the buttons of an administrator,
\* /start and the buttons of the start message.
NextGuarded ==
    \/ DeliverUserText({1}, {1}, 1, MaxGuarded)
    \/ DeliverButtonPress(1, MaxGuarded)
    \/ DeliverOtherCommand({1}, {"/start"}, {0}, 1, MaxGuarded)
    \/ DeliverPrivatePress({1}, 1, MaxGuarded)
    \/ \E id \in UpdateIds : HumBlockedDone(id)
    \/ \E id \in UpdateIds : HumThanksDone(id)
    \/ \E id \in UpdateIds : HumEditDone(id)
    \/ \E id \in UpdateIds : HumSendTextDone(id)
    \/ \E id \in UpdateIds : HbcGetChatDone(id)
    \/ \E id \in UpdateIds : CbMarkupDone(id)
    \/ \E id \in UpdateIds : CbAnswerDone(id)
    \/ \E id \in UpdateIds : CstAnswerDone(id)
    \/ \E id \in UpdateIds : EsmEditDone(id)
    \/ \E id \in UpdateIds : EsmSendDone(id)
    \/ \E id \in UpdateIds : EsmPinDone(id)
    \/ \E id \in UpdateIds : CtaMarkupDone(id)
    \/ \E id \in UpdateIds : CslEditDone(id)
    \/ \E id \in UpdateIds : CslMarkupDone(id)
    \/ \E id \in UpdateIds : PrivateAnswerDone(id)

SpecGuarded == Init /\ [][NextGuarded]_vars

\* One request at a time: /start, /anon with and without argument, and the
\* buttons of the start message.
NextStatus ==
    \/ DeliverOtherCommand({1}, {"/start"}, {0}, 1, MaxStatus)
    \/ DeliverAnonCommand({1}, {0, 1, 2, 3}, 1, MaxStatus)
    \/ DeliverPrivatePress({1}, 1, MaxStatus)
    \/ \E id \in UpdateIds : CstAnswerDone(id)
    \/ \E id \in UpdateIds : CaAnswerDone(id)
    \/ \E id \in UpdateIds : EsmEditDone(id)
    \/ \E id \in UpdateIds : EsmSendDone(id)
    \/ \E id \in UpdateIds : EsmPinDone(id)
    \/ \E id \in UpdateIds : CtaMarkupDone(id)
    \/ \E id \in UpdateIds : CslEditDone(id)
    \/ \E id \in UpdateIds : CslMarkupDone(id)
    \/ \E id \in UpdateIds : PrivateAnswerDone(id)

SpecStatus == Init /\ [][NextStatus]_vars

\* One request at a time: /start and a text of a user, then the buttons of an
\* administrator, and what the user sends while blocked: /start, /anon and
\* presses of the buttons of the start message.
NextBlockedSender ==
    \/ DeliverOtherCommand({1}, {"/start"}, {0}, 1, MaxLeadingStarts)
    \/ DeliverUserText({1}, {1}, 1, MaxLeadingTexts)
    \/ DeliverButtonPress(1, MaxLeadingPresses)
    \/ DeliverBlockedSender({1}, 1, MaxBlockedSender)
    \/ \E id \in UpdateIds : HumThanksDone(id)
    \/ \E id \in UpdateIds : HumSendTextDone(id)
    \/ \E id \in UpdateIds : HbcGetChatDone(id)
    \/ \E id \in UpdateIds : CbMarkupDone(id)
    \/ \E id \in UpdateIds : CbAnswerDone(id)
    \/ \E id \in UpdateIds : CstAnswerDone(id)
    \/ \E id \in UpdateIds : CaAnswerDone(id)
    \/ \E id \in UpdateIds : EsmEditDone(id)
    \/ \E id \in UpdateIds : EsmSendDone(id)
    \/ \E id \in UpdateIds : EsmPinDone(id)
    \/ \E id \in UpdateIds : CtaMarkupDone(id)
    \/ \E id \in UpdateIds : CslEditDone(id)
    \/ \E id \in UpdateIds : CslMarkupDone(id)
    \/ \E id \in UpdateIds : PrivateAnswerDone(id)

SpecBlockedSender == Init /\ [][NextBlockedSender]_vars

(* ------------------------- reading the history ------------------------ *)

Dispatched(j) == j \in 1 .. Len(updates) /\ pc[j] # "idle"
Finished(j) == j \in 1 .. Len(updates) /\ pc[j] = "done"

\* the successful outbound calls made while routing update j
CallsOf(j) == {k \in 1 .. Len(outbox) : outbox[k].upd = j}
AdminCallsOf(j) == {k \in CallsOf(j) : outbox[k].chat = ADMIN_CHAT_ID}
UserCallsOf(j) == {k \in CallsOf(j) : outbox[k].chat \in Users}

\* new messages with moderation controls that update j put into the
\* administrator chat
ControlSendsOf(j) ==
    {k \in AdminCallsOf(j) :
        /\ outbox[k].op \in {"send_message", "send_photo", "send_video"}
        /\ outbox[k].kb # NoKeyboard}

\* update j was routed by handle_user_message
RoutedByHum(j) == Dispatched(j) /\ Handler(updates[j]) = "handle_user_message"

\* update j is a private text message that is no command
IsPlainText(j) ==
    /\ RoutedByHum(j)
    /\ updates[j].kind = "text"
    /\ updates[j].text[1] = "plain"

\* the notification of the administrator chat that carries the content of
\* update j: the one its routing sent or edited
NotificationOf(j) == outbox[CHOOSE k \in AdminCallsOf(j) : TRUE].mid

\* body holds text t1 and, after it, text t2
HoldsBoth(body, t1, t2) ==
    \E p, q \in 1 .. Len(body) :
        p < q /\ body[p] = <<"text", t1>> /\ body[q] = <<"text", t2>>

\* body names user u: display name, handle or identifier
NamesUser(body, u) ==
    \E p \in 1 .. Len(body) :
        body[p] \in {<<"full_name", u>>, <<"username", u>>, <<"user_id", u>>}

\* update k is a press of the confirm button <prefix>:<u>
IsConfirm(k, prefix, u) ==
    /\ Dispatched(k)
    /\ updates[k].type = "callback_query"
    /\ updates[k].chat = "admin"
    /\ updates[k].data = [prefix |-> prefix, arg |-> IntToStr(u)]

\* With requests routed one at a time: user u was blocked when update j was
\* routed, that is, the last confirmation about u before j was a banconfirm.
BlockedAt(u, j) ==
    \E k \in 1 .. (j - 1) :
        /\ IsConfirm(k, "banconfirm", u)
        /\ \A m \in (k + 1) .. (j - 1) : ~IsConfirm(m, "unbanconfirm", u)

\* the acknowledgements ("thanks") sent while routing update j
AcksOf(j) ==
    {k \in UserCallsOf(j) : Len(outbox[k].body) = 1 /\ outbox[k].body[1][1] = "thanks"}

\* the block notices sent while routing update j
BlockNoticesOf(j) ==
    {k \in UserCallsOf(j) : Len(outbox[k].body) = 1 /\ outbox[k].body[1][1] = "blocked"}

\* new messages without controls that update j put into the administrator chat
BareSendsOf(j) ==
    {k \in AdminCallsOf(j) :
        /\ outbox[k].op \in {"send_photo", "send_video"}
        /\ outbox[k].kb = NoKeyboard}

(* -------------------------------- C1 ---------------------------------- *)

\* C1: every update id is handed to the handlers at most once, and a webhook
\* request for an id that was delivered before changes no store, no handler
\* and nothing outside.
C1_IdempotentRouting ==
    /\ [](\A id \in UpdateIds : feeds[id] <= 1)
    /\ [][\A id \in UpdateIds :
            (deliveries[id] >= 1 /\ deliveries'[id] = deliveries[id] + 1)
            => UNCHANGED <<processed_updates, stores, world, pc, loc>>]_vars

\* an update delivered twice whose single routing put a notification into the
\* administrator chat
C1_Witness ==
    \E id \in UpdateIds :
        /\ deliveries[id] = 2
        /\ Finished(id)
        /\ Cardinality(ControlSendsOf(id)) = 1

(* -------------------------------- C2 ---------------------------------- *)

\* i and j are two consecutive text messages of one user
ConsecutiveTexts(i, j) ==
    /\ i < j
    /\ IsPlainText(i) /\ IsPlainText(j)
    /\ updates[i].from_user = updates[j].from_user
    /\ \A k \in (i + 1) .. (j - 1) :
          ~(RoutedByHum(k) /\ updates[k].from_user = updates[i].from_user)

\* C2: of two consecutive text messages of a user, routed to their end at times
\* t and t + D, the second edits the notification of the first into one that
\* holds both texts and sends and binds nothing if D <= 60, and sends and binds
\* a notification of its own, with its text alone, if D > 60.
C2_CoalescingWindow ==
    \A i, j \in UpdateIds :
        (ConsecutiveTexts(i, j) /\ Finished(i) /\ Finished(j)) =>
            LET u == updates[j].from_user
                D == loc[j].now - loc[i].now
                n == NotificationOf(i)
            IN  /\ Cardinality(AdminCallsOf(j)) = 1
                /\ \A k \in AdminCallsOf(j) :
                      IF D <= 60 THEN
                          /\ outbox[k].op = "edit_message_text"
                          /\ outbox[k].mid = n
                          /\ HoldsBoth(outbox[k].body, updates[i].text[2],
                                       updates[j].text[2])
                          /\ HoldsBoth(admin_chat[n].body, updates[i].text[2],
                                       updates[j].text[2])
                          /\ \A key \in DOMAIN message_targets :
                                 \E s \in 1 .. Len(outbox) :
                                     /\ outbox[s].upd # j
                                     /\ outbox[s].op = "send_message"
                                     /\ outbox[s].mid = key[2]
                      ELSE
                          /\ outbox[k].op = "send_message"
                          /\ outbox[k].mid # n
                          /\ outbox[k].kb # NoKeyboard
                          /\ ~HoldsBoth(outbox[k].body, updates[i].text[2],
                                        updates[j].text[2])
                          /\ <<ADMIN_CHAT_ID, outbox[k].mid>> \in DOMAIN message_targets
                          /\ message_targets[<<ADMIN_CHAT_ID, outbox[k].mid>>] = u
                          /\ <<ADMIN_CHAT_ID, n>> \in DOMAIN message_targets

\* two texts routed exactly 60 seconds apart, the second merged into the
\* notification of the first
C2_Witness ==
    \E i, j \in UpdateIds :
        /\ ConsecutiveTexts(i, j) /\ Finished(i) /\ Finished(j)
        /\ loc[j].now - loc[i].now = 60
        /\ updates[i].text[2] # updates[j].text[2]
        /\ HoldsBoth(admin_chat[NotificationOf(i)].body, updates[i].text[2],
                     updates[j].text[2])

(* -------------------------------- C3 ---------------------------------- *)

\* C3: the notification that carries a message routed while its sender was
\* anonymous does not name the sender.
C3_AnonymousOmitsIdentity ==
    \A j \in UpdateIds :
        (RoutedByHum(j) /\ Finished(j) /\ loc[j].anon) =>
            \A k \in AdminCallsOf(j) :
                ~NamesUser(admin_chat[outbox[k].mid].body, updates[j].from_user)

(* -------------------------------- C4 ---------------------------------- *)

\* the updates that are items of album g
ItemsOf(g) ==
    {j \in 1 .. Len(updates) : IsUserMessage(updates[j]) /\ updates[j].group = g}

\* the union of F(j) over the items of album g
OverItems(g, F(_)) == UNION {F(j) : j \in ItemsOf(g)}

\* C4 as stated: once every item of an album (of photos and videos) is routed
\* to its end, the album has got one acknowledgement, one statistics event, one
\* notification with controls and n - 1 bare attachments.
C4_EveryBatchCollapses ==
    (\A j \in 1 .. Len(updates) :
        Finished(j) /\ (IsUserMessage(updates[j]) => updates[j].kind \in {"photo", "video"}))
    =>  /\ Len(user_message_log) = Cardinality({g \in MediaGroups : ItemsOf(g) # {}})
        /\ \A g \in MediaGroups :
              ItemsOf(g) # {} =>
                  /\ Cardinality(OverItems(g, AcksOf)) = 1
                  /\ Cardinality(OverItems(g, ControlSendsOf)) = 1
                  /\ Cardinality(OverItems(g, BareSendsOf)) = Cardinality(ItemsOf(g)) - 1

\* every item of album g so far is a photo or a video of a sender who was not
\* blocked when it was routed
Accepted(g) ==
    \A j \in ItemsOf(g) :
        /\ updates[j].kind \in {"photo", "video"}
        /\ ~BlockedAt(updates[j].from_user, j)

FirstItem(g) == CHOOSE j \in ItemsOf(g) : \A k \in ItemsOf(g) : j <= k

\* C4, amended: for an album of photos and videos whose sender is not blocked
\* when its items are routed, the first item appends the one statistics event
\* and alone is acknowledged and sent with controls (both exactly once when its
\* calls succeed), and every later item is sent as one bare attachment.
C4_BatchCollapsing ==
    /\ [](\A g \in MediaGroups :
            (ItemsOf(g) # {} /\ Accepted(g)) =>
                /\ OverItems(g, AcksOf) = AcksOf(FirstItem(g))
                /\ OverItems(g, ControlSendsOf) = ControlSendsOf(FirstItem(g))
                /\ Cardinality(AcksOf(FirstItem(g))) <= 1
                /\ Cardinality(ControlSendsOf(FirstItem(g))) <= 1
                /\ Finished(FirstItem(g)) =>
                       /\ Cardinality(AcksOf(FirstItem(g))) = 1
                       /\ Cardinality(ControlSendsOf(FirstItem(g))) = 1
                /\ \A j \in ItemsOf(g) \ {FirstItem(g)} :
                       Finished(j) =>
                           /\ CallsOf(j) = BareSendsOf(j)
                           /\ Cardinality(BareSendsOf(j)) = 1)
    /\ [][\A g \in MediaGroups :
            (Len(updates') = Len(updates) + 1
             /\ updates'[Len(updates')].group = g
             /\ IsUserMessage(updates'[Len(updates')])
             /\ updates'[Len(updates')].kind \in {"photo", "video"}
             /\ ~BlockedAt(updates'[Len(updates')].from_user, Len(updates) + 1)
             /\ Accepted(g))
            => Len(user_message_log') =
                   Len(user_message_log) + (IF ItemsOf(g) = {} THEN 1 ELSE 0)]_vars

\* an album of three items, all routed: one acknowledgement, one statistics
\* event, one notification with controls, two bare attachments
C4_Witness ==
    \E g \in MediaGroups :
        /\ Cardinality(ItemsOf(g)) = 3
        /\ Accepted(g)
        /\ \A j \in ItemsOf(g) : Finished(j)
        /\ Cardinality(OverItems(g, AcksOf)) = 1
        /\ Cardinality(OverItems(g, ControlSendsOf)) = 1
        /\ Cardinality(OverItems(g, BareSendsOf)) = 2
        /\ Len(user_message_log) = 1

(* -------------------------------- C5 ---------------------------------- *)

\* the step appends outbound call c to the log of calls
Logs(c) == outbox' = Append(outbox, c)

\* C5: a private message that is no command, routed while its sender is in
\* banned_users, writes no statistics event, binding, last relay or album mark
\* and sends nothing; the handler then sends the block notice to the sender and
\* nothing else, and writes no store.
C5_BlockedSenderGetsNoticeOnly ==
    /\ [][\A u \in Users :
            LET j == Len(updates) + 1
            IN  (/\ Len(updates') = j
                 /\ IsUserMessage(updates'[j])
                 /\ ~IsCommandText(updates'[j])
                 /\ updates'[j].from_user = u
                 /\ u \in banned_users)
                => /\ pc'[j] = "hum_blocked"
                   /\ UNCHANGED <<user_message_log, message_targets, last_admin_message,
                                  handled_media_groups, banned_users, ban_log, world>>]_vars
    /\ [](\A j \in UpdateIds : pc[j] = "hum_blocked" => CallsOf(j) = {})
    /\ [][\A j \in UpdateIds :
            (pc[j] = "hum_blocked" /\ pc'[j] # "hum_blocked")
            => /\ UNCHANGED <<stores, admin_chat>>
               /\ \/ pc'[j] = "failed" /\ UNCHANGED world
                  \/ /\ pc'[j] = "done"
                     /\ Logs(Call(j, "send_message", updates[j].from_user,
                                  Len(user_chat[updates[j].from_user]) + 1,
                                  build_blocked_text(loc[j].lang), NoKeyboard))]_vars

\* an album item of a blocked sender, routed to its end: the block notice is
\* all that was sent, the album is not marked as acknowledged, and the sender's
\* earlier message is the only statistics event and the only binding
C5_Witness ==
    \E j \in UpdateIds :
        /\ RoutedByHum(j) /\ Finished(j)
        /\ updates[j].from_user \in banned_users
        /\ updates[j].group # 0
        /\ updates[j].group \notin handled_media_groups
        /\ Cardinality(BlockNoticesOf(j)) = 1
        /\ CallsOf(j) = BlockNoticesOf(j)
        /\ Len(user_message_log) = 1
        /\ Cardinality(DOMAIN message_targets) = 1

(* -------------------------------- C6 ---------------------------------- *)

\* update j is a reply of an administrator to a message that has a binding
IsBoundReply(j) ==
    /\ Dispatched(j)
    /\ Handler(updates[j]) = "handle_admin_reply"
    /\ <<ADMIN_CHAT_ID, updates[j].reply_to>> \in DOMAIN message_targets

\* the user the replied-to message is bound to
ReplyTarget(j) == message_targets[<<ADMIN_CHAT_ID, updates[j].reply_to>>]

\* C6: a reply of an administrator to a notification bound to a user who is in
\* banned_users sends nothing when it is routed; the handler then posts the
\* suppression notice to the administrator chat and nothing else: no message
\* to the user, no "reply sent" acknowledgement.
C6_BlockedTargetGetsNothing ==
    /\ [][\A u \in Users :
            LET j == Len(updates) + 1
            IN  (/\ Len(updates') = j
                 /\ IsAdminMessage(updates'[j])
                 /\ updates'[j].reply_to # 0
                 /\ <<ADMIN_CHAT_ID, updates'[j].reply_to>> \in DOMAIN message_targets
                 /\ message_targets[<<ADMIN_CHAT_ID, updates'[j].reply_to>>] = u
                 /\ u \in banned_users)
                => /\ pc'[j] = "har_suppress"
                   /\ UNCHANGED world]_vars
    /\ [](\A j \in UpdateIds : pc[j] = "har_suppress" => CallsOf(j) = {})
    /\ [][\A j \in UpdateIds :
            (pc[j] = "har_suppress" /\ pc'[j] # "har_suppress")
            => /\ UNCHANGED user_chat
               /\ \/ pc'[j] = "failed" /\ UNCHANGED world
                  \/ /\ pc'[j] = "done"
                     /\ Logs(Call(j, "send_message", ADMIN_CHAT_ID, Len(admin_chat) + 1,
                                  SuppressedNotice, NoKeyboard))
                     /\ admin_chat' = Append(admin_chat,
                            BotMessage("text", SuppressedNotice, NoKeyboard))]_vars

\* a reply to a notification of a blocked user, routed to its end: the
\* suppression notice is its only call, and the user has got the
\* acknowledgement of their own message and nothing since
C6_Witness ==
    \E j \in UpdateIds :
        /\ IsBoundReply(j) /\ Finished(j)
        /\ ReplyTarget(j) \in banned_users
        /\ Cardinality(CallsOf(j)) = 1
        /\ \A k \in CallsOf(j) :
               outbox[k].chat = ADMIN_CHAT_ID /\ outbox[k].body = SuppressedNotice
        /\ Len(user_chat[ReplyTarget(j)]) = 1

(* -------------------------------- C7 ---------------------------------- *)

\* the calls of update j that delivered something to user u
DeliveriesTo(j, u) == {k \in CallsOf(j) : outbox[k].chat = u}

\* C7: with requests routed one at a time, what a message or a reply does
\* depends only on the last confirmation about the user before it.  After a
\* banconfirm (and no unbanconfirm since) a message gets the block notice only
\* and a reply is not delivered; otherwise, and so after an unbanconfirm, a
\* message is acknowledged, counted and relayed and a reply to any of the
\* user's notifications is delivered to the user.
C7_BlockImmediateAndReversible ==
    /\ \A j \in UpdateIds :
          (IsPlainText(j) /\ Finished(j)) =>
              IF BlockedAt(updates[j].from_user, j)
              THEN /\ CallsOf(j) = BlockNoticesOf(j)
                   /\ Cardinality(CallsOf(j)) = 1
              ELSE /\ Cardinality(AcksOf(j)) = 1
                   /\ Cardinality(AdminCallsOf(j)) = 1
                   /\ Cardinality(CallsOf(j)) = 2
    /\ Len(user_message_log) =
           Cardinality({j \in UpdateIds :
               IsPlainText(j) /\ ~BlockedAt(updates[j].from_user, j)})
    /\ \A j \in UpdateIds :
          (IsBoundReply(j) /\ Finished(j)) =>
              IF BlockedAt(ReplyTarget(j), j)
              THEN DeliveriesTo(j, ReplyTarget(j)) = {}
              ELSE /\ Cardinality(DeliveriesTo(j, ReplyTarget(j))) = 1
                   /\ \E k \in AdminCallsOf(j) : outbox[k].body = ReplySentNotice

\* a user's message is relayed, the user is blocked and unblocked again, and a
\* reply to the notification from before the block is delivered to the user
C7_Witness ==
    \E j \in UpdateIds :
        /\ IsBoundReply(j) /\ Finished(j)
        /\ Cardinality(DeliveriesTo(j, ReplyTarget(j))) = 1
        /\ \E n \in 1 .. (j - 1) :
              /\ IsConfirm(n, "unbanconfirm", ReplyTarget(j))
              /\ \E b \in 1 .. (n - 1) :
                    /\ IsConfirm(b, "banconfirm", ReplyTarget(j))
                    /\ \E i \in 1 .. (b - 1) :
                          /\ IsPlainText(i)
                          /\ updates[i].from_user = ReplyTarget(j)
                          /\ AdminCallsOf(i) # {}
                          /\ updates[j].reply_to = NotificationOf(i)

(* -------------------------------- C8 ---------------------------------- *)

\* C8: whatever bindings exist, a reply of an administrator to message N sends
\* to no user but the one message_targets holds for (administrator chat, N),
\* once when it is routed to its end and that user is not blocked; a reply to
\* a message without a binding makes no outbound call at all.
C8_ReplyGoesToBoundUserOnly ==
    \A j \in UpdateIds :
        (Dispatched(j) /\ Handler(updates[j]) = "handle_admin_reply") =>
            LET key == <<ADMIN_CHAT_ID, updates[j].reply_to>>
            IN  IF key \in DOMAIN message_targets
                THEN /\ \A k \in UserCallsOf(j) : outbox[k].chat = message_targets[key]
                     /\ (Finished(j) /\ ~BlockedAt(message_targets[key], j))
                            => Cardinality(UserCallsOf(j)) = 1
                ELSE /\ CallsOf(j) = {}
                     /\ pc[j] = "done"

\* notifications of two users are bound; a reply to the second user's
\* notification has reached the second user and not the first, and a reply to
\* the unbound "reply sent" acknowledgement has made no call
C8_Witness ==
    \E i, j \in UpdateIds :
        /\ IsBoundReply(i) /\ Finished(i)
        /\ ReplyTarget(i) = 2
        /\ \E key \in DOMAIN message_targets : message_targets[key] = 1
        /\ Cardinality(DeliveriesTo(i, 2)) = 1
        /\ DeliveriesTo(i, 1) = {}
        /\ Dispatched(j) /\ Handler(updates[j]) = "handle_admin_reply"
        /\ ~IsBoundReply(j)
        /\ CallsOf(j) = {}

(* -------------------------------- C9 ---------------------------------- *)

\* C9: no step of one update's routing writes a shared store while the
\* routing of another update is suspended in an outbound call.
C9_OneEventAtATime ==
    [][\A id \in UpdateIds :
          (pc'[id] # pc[id] /\ stores' # stores)
          => \A other \in UpdateIds \ {id} : ~Suspended(other)]_vars

(* -------------------------------- C10 --------------------------------- *)

\* C10: no routing is aborted by an outbound call that raises: the handler of
\* every update runs to its end.
C10_RoutingNeverAborts == \A id \in UpdateIds : pc[id] # "failed"

(* -------------------------------- C11 --------------------------------- *)

\* outbound call k put a new message into the administrator chat
IsFreshSend(k) ==
    /\ outbox[k].chat = ADMIN_CHAT_ID
    /\ outbox[k].op \in {"send_message", "send_photo", "send_video"}
    /\ \A m \in 1 .. (k - 1) :
          ~(outbox[m].chat = ADMIN_CHAT_ID /\ outbox[m].mid = outbox[k].mid)

\* outbound call k edited the content of a message of the administrator chat
IsContentEdit(k) ==
    /\ outbox[k].chat = ADMIN_CHAT_ID
    /\ outbox[k].op \in {"edit_message_text", "edit_message_caption"}

\* C11: every call that routing a photo or a video makes into the
\* administrator chat sends a new message with send_photo / send_video, exactly
\* one when the routing of an unblocked sender's item ends, however recent the
\* sender's last relay is; the content of a message of the administrator chat
\* is edited for text messages only.
C11_MediaNeverCoalesces ==
    /\ \A j \in UpdateIds :
          (RoutedByHum(j) /\ updates[j].kind \in {"photo", "video"}) =>
              /\ \A k \in AdminCallsOf(j) :
                     IsFreshSend(k) /\ outbox[k].op \in {"send_photo", "send_video"}
              /\ (Finished(j) /\ BlockNoticesOf(j) = {})
                     => Cardinality(AdminCallsOf(j)) = 1
    /\ \A k \in 1 .. Len(outbox) :
          IsContentEdit(k) => updates[outbox[k].upd].kind = "text"

\* a text and then a photo of one user, both routed to their end at the same
\* second: the photo is a notification of its own, with controls, and is the
\* user's last relay
C11_Witness ==
    \E i, j \in UpdateIds :
        /\ i < j
        /\ IsPlainText(i) /\ Finished(i) /\ AdminCallsOf(i) # {}
        /\ RoutedByHum(j) /\ Finished(j) /\ updates[j].kind = "photo"
        /\ updates[j].from_user = updates[i].from_user
        /\ loc[i].now = clock
        /\ Cardinality(ControlSendsOf(j)) = 1
        /\ NotificationOf(j) # NotificationOf(i)
        /\ last_admin_message[updates[j].from_user].message_id = NotificationOf(j)
        /\ last_admin_message[updates[j].from_user].has_media

(* -------------------------------- C12 --------------------------------- *)

\* update j is a press of the statistics button of period
IsStatsQuery(ev, period) ==
    ev.type = "callback_query" /\ ev.chat = "admin" /\ ev.data = StatsData(period)

\* the events of the log that are at most window seconds old at time now
AtMostOld(window, now) ==
    {i \in 1 .. Len(user_message_log) : now - user_message_log[i].timestamp <= window}

\* text reports exactly the events of set counted: their number and their
\* numbers by type, or "no messages" when there is none
Reports(text, counted) ==
    IF counted = {} THEN Len(text) = 1 /\ text[1][1] = "stats_no_messages"
    ELSE /\ Len(text) = 8
         /\ text[2] = <<"stats_total", Cardinality(counted)>>
         /\ text[3] = <<"stats_users",
                        Cardinality({user_message_log[i].user_id : i \in counted})>>
         /\ text[4] = <<"stats_text",
                        Cardinality({i \in counted : user_message_log[i].type = "text"})>>

\* C12: the text a statistics query computes at time now reports, for "day",
\* exactly the events with now - ts <= 86400, for "week" those with
\* now - ts <= 7 * 86400, for "month" those with now - ts <= 30 * 86400, and
\* for "all" every event of the log; and that text is what the query then
\* puts on the menu message.
C12_StatsWindows ==
    /\ [][LET j == Len(updates) + 1
          IN  Len(updates') = j =>
                /\ IsStatsQuery(updates'[j], PeriodDay)
                      => Reports(loc'[j].text, AtMostOld(86400, clock))
                /\ IsStatsQuery(updates'[j], PeriodWeek)
                      => Reports(loc'[j].text, AtMostOld(7 * 86400, clock))
                /\ IsStatsQuery(updates'[j], PeriodMonth)
                      => Reports(loc'[j].text, AtMostOld(30 * 86400, clock))
                /\ IsStatsQuery(updates'[j], PeriodAll)
                      => Reports(loc'[j].text, 1 .. Len(user_message_log))]_vars
    /\ [][\A j \in UpdateIds :
            (pc[j] = "hsc_edit" /\ pc'[j] = "cb_answer")
            => /\ outbox' = Append(outbox, Call(j, "edit_message_text", ADMIN_CHAT_ID,
                                   updates[j].msg_id, loc[j].text, loc[j].kb))
               /\ admin_chat'[updates[j].msg_id].body = loc[j].text]_vars

\* a "day" query made 86401 seconds after the first event and 86400 seconds
\* after the second has put a report of one message on the menu message
C12_Witness ==
    \E j \in UpdateIds :
        /\ Finished(j)
        /\ IsStatsQuery(updates[j], PeriodDay)
        /\ Len(user_message_log) = 2
        /\ loc[j].ts - user_message_log[1].timestamp = 86401
        /\ loc[j].ts - user_message_log[2].timestamp = 86400
        /\ \E k \in CallsOf(j) :
              /\ outbox[k].op = "edit_message_text"
              /\ outbox[k].body[2] = <<"stats_total", 1>>

(* -------------------------------- C13 --------------------------------- *)

\* the handlers of the buttons that ask or cancel
AskOrCancel ==
    {"handle_ban_button", "handle_ban_cancel", "handle_unban_button", "handle_unban_cancel"}

\* the administrator chat differs from before in the controls of message m
\* at most
OnlyControlsOf(m) ==
    /\ Len(admin_chat') = Len(admin_chat)
    /\ \A n \in 1 .. Len(admin_chat) :
          /\ admin_chat'[n].body = admin_chat[n].body
          /\ admin_chat'[n].kind = admin_chat[n].kind
          /\ n # m => admin_chat'[n] = admin_chat[n]

\* the step logs no call, or one call of update j about message m that edits
\* its controls or answers the press
LogsControlCall(j, m) ==
    \/ outbox' = outbox
    \/ /\ Len(outbox') = Len(outbox) + 1
       /\ SubSeq(outbox', 1, Len(outbox)) = outbox
       /\ outbox'[Len(outbox')].upd = j
       /\ outbox'[Len(outbox')].mid = m
       /\ outbox'[Len(outbox')].op \in {"edit_reply_markup", "answer_callback"}

\* C13: every step of a ban, bancancel, unban or unbancancel press leaves all
\* stores and the users' chats as they are and changes nothing in the
\* administrator chat but the controls of the pressed message; banned_users and
\* ban_log change in steps of banconfirm (which adds its user) and
\* unbanconfirm (which removes its user from both) only.
C13_OnlyConfirmsChangeBlocks ==
    [][\A j \in UpdateIds :
          pc'[j] # pc[j] =>
              LET ev == updates'[j]
                  h == Handler(ev)
                  u == DigitsToInt(ev.data.arg)
              IN  /\ h \in AskOrCancel =>
                         /\ UNCHANGED <<stores, user_chat>>
                         /\ OnlyControlsOf(ev.msg_id)
                         /\ LogsControlCall(j, ev.msg_id)
                  /\ (banned_users' # banned_users \/ ban_log' # ban_log) =>
                         \/ /\ h = "handle_ban_confirm"
                            /\ banned_users' = banned_users \cup {u}
                            /\ DOMAIN ban_log' \subseteq DOMAIN ban_log \cup {u}
                            /\ \A v \in DOMAIN ban_log \ {u} : ban_log'[v] = ban_log[v]
                         \/ /\ h = "handle_unban_confirm"
                            /\ banned_users' = banned_users \ {u}
                            /\ DOMAIN ban_log' = DOMAIN ban_log \ {u}
                            /\ \A v \in DOMAIN ban_log' : ban_log'[v] = ban_log[v]]_vars

\* a user is blocked, and an unban press followed by its cancellation, both
\* routed to their end, have left the user blocked with the audit entry, and
\* the pressed message with the unban button again
C13_Witness ==
    \E i, j \in UpdateIds : \E u \in Users :
        /\ i < j
        /\ Finished(i) /\ Handler(updates[i]) = "handle_unban_button"
        /\ Finished(j) /\ Handler(updates[j]) = "handle_unban_cancel"
        /\ updates[i].msg_id = updates[j].msg_id
        /\ updates[j].data.arg = IntToStr(u)
        /\ admin_chat[updates[j].msg_id].kb = make_unban_keyboard(u)
        /\ banned_users = {u}
        /\ DOMAIN ban_log = {u}

(* -------------------------------- C14 --------------------------------- *)

\* the "unsupported" notices sent while routing update j
UnsupportedNoticesOf(j) ==
    {k \in UserCallsOf(j) : Len(outbox[k].body) = 1 /\ outbox[k].body[1][1] = "unsupported"}

\* C14: a private message that is neither text nor photo nor video, routed
\* while its sender is not in banned_users, writes no statistics event,
\* binding or last relay and sends nothing; the handler then sends the
\* "unsupported" notice to the sender and nothing else: no acknowledgement,
\* nothing into the administrator chat.
C14_UnsupportedGetsNoticeOnly ==
    /\ [][\A u \in Users :
            LET j == Len(updates) + 1
            IN  (/\ Len(updates') = j
                 /\ IsUserMessage(updates'[j])
                 /\ updates'[j].kind \notin {"text", "photo", "video", "pinned_message"}
                 /\ updates'[j].from_user = u
                 /\ u \notin banned_users)
                => /\ pc'[j] = "hum_unsupported"
                   /\ UNCHANGED <<user_message_log, message_targets, last_admin_message,
                                  banned_users, ban_log, world>>]_vars
    /\ [](\A j \in UpdateIds : pc[j] = "hum_unsupported" => CallsOf(j) = {})
    /\ [][\A j \in UpdateIds :
            (pc[j] = "hum_unsupported" /\ pc'[j] # "hum_unsupported")
            => /\ UNCHANGED <<stores, admin_chat>>
               /\ \/ pc'[j] = "failed" /\ UNCHANGED world
                  \/ /\ pc'[j] = "done"
                     /\ Logs(Call(j, "send_message", updates[j].from_user,
                                  Len(user_chat[updates[j].from_user]) + 1,
                                  build_unsupported_text(loc[j].lang), NoKeyboard))]_vars

\* a photo of a user was relayed, and a document of the same user, routed to
\* its end, got the notice and nothing else: the photo is still the only
\* statistics event, the only binding and the user's last relay
C14_Witness ==
    \E i, j \in UpdateIds :
        /\ i < j
        /\ RoutedByHum(i) /\ Finished(i) /\ Cardinality(ControlSendsOf(i)) = 1
        /\ RoutedByHum(j) /\ Finished(j) /\ updates[j].kind = "document"
        /\ updates[j].from_user = updates[i].from_user
        /\ updates[j].from_user \notin banned_users
        /\ CallsOf(j) = UnsupportedNoticesOf(j)
        /\ Cardinality(CallsOf(j)) = 1
        /\ Len(user_message_log) = 1
        /\ Cardinality(DOMAIN message_targets) = 1
        /\ last_admin_message[updates[j].from_user].message_id = NotificationOf(i)

(* -------------------------------- C15 --------------------------------- *)

\* the language and the anonymity flag the settings st hold for user u, which
\* are the defaults when u has no record
FlagsOf(st, u) ==
    IF u \in DOMAIN st THEN <<st[u].lang, st[u].anon>>
    ELSE <<DefaultSettings.lang, DefaultSettings.anon>>

\* C15: a private text whose first word begins with "/" and is neither /start
\* nor /anon is routed in one step that sends nothing, appends no statistics
\* event, writes no binding and no last relay, and leaves the sender's
\* language and anonymity flag as they are.
C15_UnknownCommandIgnored ==
    [][LET j == Len(updates) + 1
       IN  (/\ Len(updates') = j
            /\ IsUserMessage(updates'[j])
            /\ updates'[j].kind = "text"
            /\ StartsWith(CommandWord(updates'[j].text[1]), <<"/">>)
            /\ updates'[j].text[1] \notin {"/start", "/anon"})
           => /\ pc'[j] = "done"
              /\ UNCHANGED <<world, user_message_log, message_targets,
                             last_admin_message>>
              /\ FlagsOf(user_settings', updates'[j].from_user)
                    = FlagsOf(user_settings, updates'[j].from_user)]_vars

(* -------------------------------- C16 --------------------------------- *)

\* a text that int() does not take: empty, or with a character that is no digit
NoInteger(s) == Len(s) = 0 \/ \E i \in 1 .. Len(s) : ~IsDigit(s[i])

\* ev is a control activation whose payload cannot be resolved
Unresolvable(ev) ==
    /\ ev.type = "callback_query"
    /\ \/ ev.chat = "admin" /\ ev.data.prefix \in BanPrefixes /\ NoInteger(ev.data.arg)
       \/ ev.chat = "private" /\ ev.data.prefix = "lang"
                              /\ ev.data.arg \notin {CodeRu, CodeEn}

\* C16 as stated: no step of a control activation with an unresolvable
\* payload changes any store.
C16_BadPayloadChangesNothing ==
    [][\A j \in UpdateIds :
          (pc'[j] # pc[j] /\ Unresolvable(updates'[j])) => UNCHANGED stores]_vars

\* C16, amended: no step of a control activation with an unresolvable payload
\* changes banned_users, ban_log, the statistics log, the bindings, the last
\* relays or the album marks, and none changes a settings record that exists;
\* a language press of a user without a settings record creates the default
\* record of that user.
C16_BadPayloadKeepsRecords ==
    [][\A j \in UpdateIds :
          (pc'[j] # pc[j] /\ Unresolvable(updates'[j])) =>
              /\ UNCHANGED <<banned_users, ban_log, user_message_log,
                             last_admin_message, handled_media_groups, message_targets>>
              /\ \A u \in DOMAIN user_settings :
                     u \in DOMAIN user_settings' /\ user_settings'[u] = user_settings[u]
              /\ \A u \in DOMAIN user_settings' \ DOMAIN user_settings :
                     /\ updates'[j].chat = "private"
                     /\ u = updates'[j].from_user
                     /\ user_settings'[u] = DefaultSettings
              /\ UNCHANGED <<admin_chat, user_chat>>]_vars

\* after a message of a user was relayed, an unbanconfirm and a language
\* press of that user with unresolvable payloads were each answered with an
\* alert and nothing else
C16_Witness ==
    \E i, j \in UpdateIds :
        /\ Finished(i) /\ Unresolvable(updates[i]) /\ updates[i].chat = "admin"
        /\ updates[i].data.prefix = "unbanconfirm"
        /\ Finished(j) /\ Unresolvable(updates[j]) /\ updates[j].chat = "private"
        /\ CallsOf(i) # {} /\ CallsOf(j) # {}
        /\ \A k \in CallsOf(i) \cup CallsOf(j) : outbox[k].op = "answer_callback"
        /\ user_message_log # <<>>
        /\ updates[j].from_user \in DOMAIN user_settings

(* -------------------------------- C17 --------------------------------- *)

\* outbound call k of the routing of a user's message put a new message with
\* moderation controls into the administrator chat
IsControlRelay(k) ==
    /\ RoutedByHum(outbox[k].upd)
    /\ outbox[k].chat = ADMIN_CHAT_ID
    /\ outbox[k].op \in {"send_message", "send_photo", "send_video"}
    /\ outbox[k].kb # NoKeyboard

\* C17: in every state, every message that the routing of a user's message
\* sent into the administrator chat with moderation controls is bound in
\* message_targets to the user the message came from, and the message that
\* last_admin_message holds for a user is bound to that user.
C17_RelaysAreBound ==
    /\ \A k \in 1 .. Len(outbox) :
          IsControlRelay(k) =>
              /\ <<ADMIN_CHAT_ID, outbox[k].mid>> \in DOMAIN message_targets
              /\ message_targets[<<ADMIN_CHAT_ID, outbox[k].mid>>]
                     = updates[outbox[k].upd].from_user
    /\ \A u \in DOMAIN last_admin_message :
          /\ <<last_admin_message[u].chat_id, last_admin_message[u].message_id>>
                 \in DOMAIN message_targets
          /\ message_targets[<<last_admin_message[u].chat_id,
                               last_admin_message[u].message_id>>] = u

\* two users have each had a message relayed with controls, requests of
\* theirs overlapping, and a later text of one was added to its notification
C17_Witness ==
    /\ \E k, m \in 1 .. Len(outbox) :
          /\ IsControlRelay(k) /\ IsControlRelay(m)
          /\ updates[outbox[k].upd].from_user # updates[outbox[m].upd].from_user
    /\ DOMAIN last_admin_message = Users
    /\ \E k \in 1 .. Len(outbox) : IsContentEdit(k)

(* -------------------------------- C18 --------------------------------- *)

\* C18: in every state, every user with an entry in ban_log is in
\* banned_users.
C18_AuditedUsersAreBlocked == \A u \in DOMAIN ban_log : u \in banned_users

(* -------------------------------- C19 --------------------------------- *)

\* the last outbound call was made by update j with operation op
LastCallIs(j, op) ==
    /\ outbox # <<>>
    /\ outbox[Len(outbox)].upd = j
    /\ outbox[Len(outbox)].op = op

\* C19: (a) when bot.get_chat of a banconfirm returns or raises, the handler
\* goes on to edit the keyboard, the user is blocked and has an audit entry,
\* with the user's name and handle or with neither; (b) when pinning the
\* status message fails, its id is stored as status_msg_id and the caller of
\* ensure_status_message goes on; (c) when the edit of the start message of a
\* language press fails, the user's language is the pressed one and the
\* handler goes on to edit the keyboard alone, and whether that edit succeeds
\* or fails the handler goes on to answer the press.
C19_BestEffortFailuresAreAbsorbed ==
    [][\A j \in UpdateIds :
          /\ (pc[j] = "hbc_get_chat" /\ pc'[j] # pc[j]) =>
                 LET t == DigitsToInt(updates[j].data.arg)
                 IN  /\ pc'[j] = "cb_markup"
                     /\ t \in banned_users'
                     /\ t \in DOMAIN ban_log'
                     /\ \/ ban_log'[t].name = 0 /\ ban_log'[t].username = 0
                        \/ /\ ban_log'[t].name = FullName(t)
                           /\ ban_log'[t].username = IF HasUsername(t) THEN t ELSE 0
          /\ (pc[j] = "esm_pin" /\ pc'[j] # pc[j] /\ outbox' = outbox) =>
                 /\ pc'[j] # "failed"
                 /\ LastCallIs(j, "send_message")
                 /\ outbox[Len(outbox)].chat = updates[j].from_user
                 /\ user_settings'[updates[j].from_user].status_msg_id
                        = outbox[Len(outbox)].mid
          /\ (pc[j] = "csl_edit" /\ pc'[j] # pc[j] /\ outbox' = outbox) =>
                 /\ pc'[j] = "csl_markup"
                 /\ user_settings'[updates[j].from_user].lang
                        = IF updates[j].data.arg = CodeEn THEN "en" ELSE "ru"
          /\ (pc[j] = "csl_markup" /\ pc'[j] # pc[j]) =>
                 /\ pc'[j] = "csl_answer"
                 /\ outbox' # outbox =>
                        /\ Len(outbox') = Len(outbox) + 1
                        /\ outbox'[Len(outbox')].upd = j
                        /\ outbox'[Len(outbox')].op = "edit_reply_markup"
                        /\ outbox'[Len(outbox')].body = <<>>]_vars

\* a banconfirm whose identity lookup failed has run to its end: the user is
\* blocked, with an audit entry without name and handle; and a /start whose
\* pin failed has run to its end: the status message is not pinned, and its
\* id is stored
C19_Witness ==
    /\ \E j \in UpdateIds :
          /\ Finished(j) /\ updates[j].type = "callback_query"
          /\ updates[j].data.prefix = "banconfirm"
          /\ 1 \in banned_users /\ 1 \in DOMAIN ban_log
          /\ ban_log[1].name = 0 /\ ban_log[1].username = 0
    /\ \E j \in UpdateIds :
          /\ Finished(j) /\ updates[j].type = "message" /\ updates[j].chat = "private"
          /\ updates[j].text[1] = "/start"
          /\ 1 \in DOMAIN user_settings
          /\ user_settings[1].status_msg_id \in 1 .. Len(user_chat[1])
          /\ ~user_chat[1][user_settings[1].status_msg_id].pinned
          /\ \A k \in CallsOf(j) : outbox[k].op # "pin_chat_message"

(* -------------------------------- C20 --------------------------------- *)

\* C20: updates are routed in the order in which telegram_webhook admits
\* them: no outbound call of an update is made after an outbound call of an
\* update admitted later, and no update is still suspended in an outbound call
\* when a later update has made one.
C20_AdmissionOrderIsRoutingOrder ==
    /\ \A k, m \in 1 .. Len(outbox) : k < m => outbox[k].upd <= outbox[m].upd
    /\ \A k \in 1 .. Len(outbox) :
          \A j \in 1 .. (outbox[k].upd - 1) : ~Suspended(j)

(* -------------------------------- C21 --------------------------------- *)

\* i .. j is a chain of text messages of one user: all routed to their end,
\* each at most 60 seconds after the one before
ChainedTexts(i, j) ==
    /\ i < j
    /\ IsPlainText(i) /\ IsPlainText(j)
    /\ updates[i].from_user = updates[j].from_user
    /\ \A a \in i .. j :
          (RoutedByHum(a) /\ updates[a].from_user = updates[i].from_user) =>
              IsPlainText(a) /\ Finished(a)
    /\ \A a, b \in i .. j :
          ConsecutiveTexts(a, b) => loc[b].now - loc[a].now <= 60

\* C21: (a) every later text of a chain edits the notification of the first
\* text of the chain, which stays the one notification and the one binding of
\* the chain, whatever time lies between the first and the last text; (b) a
\* text that coalesces takes the clock as its routing time; (c) a coalescing
\* edit that succeeds sets the time of last_admin_message to the routing time
\* of the text, and its text to the longer text the notification now shows, for
\* the same message and with no new binding; (d) one that fails leaves
\* last_admin_message as it is.
C21_ChainsMergeIntoOneNotification ==
    /\ [](\A i, j \in UpdateIds :
            ChainedTexts(i, j) =>
                /\ Cardinality(AdminCallsOf(j)) = 1
                /\ \A k \in AdminCallsOf(j) :
                      /\ outbox[k].op = "edit_message_text"
                      /\ outbox[k].mid = NotificationOf(i)
                /\ \A key \in DOMAIN message_targets :
                      \A a \in (i + 1) .. j : \A k \in AdminCallsOf(a) :
                          key[2] = outbox[k].mid => key[2] = NotificationOf(i))
    /\ [][\A j \in UpdateIds :
            /\ (pc[j] # "hum_edit" /\ pc'[j] = "hum_edit") => loc'[j].now = clock
            /\ (pc[j] = "hum_edit" /\ pc'[j] # pc[j]) =>
                   LET u == updates[j].from_user
                   IN  IF outbox' # outbox THEN
                           /\ pc'[j] = "done"
                           /\ last_admin_message'[u].time = loc[j].now
                           /\ last_admin_message'[u].text = outbox'[Len(outbox')].body
                           /\ last_admin_message'[u].text = admin_chat'[loc[j].info.message_id].body
                           /\ Len(last_admin_message'[u].text) > Len(last_admin_message[u].text)
                           /\ last_admin_message'[u].message_id = last_admin_message[u].message_id
                           /\ UNCHANGED message_targets
                           /\ Len(admin_chat') = Len(admin_chat)
                       ELSE /\ pc'[j] = "failed"
                            /\ UNCHANGED <<last_admin_message, message_targets, admin_chat>>]_vars

\* three texts of a user, routed at 0, 31 and 62 seconds, are one notification
\* with one binding, last updated at 62 seconds
C21_Witness ==
    \E i, j \in UpdateIds :
        /\ ChainedTexts(i, j)
        /\ \E a \in (i + 1) .. (j - 1) : IsPlainText(a)
        /\ loc[j].now - loc[i].now > 60
        /\ Len(admin_chat) = 1
        /\ Cardinality(DOMAIN message_targets) = 1
        /\ last_admin_message[updates[i].from_user].time = loc[j].now
        /\ HoldsBoth(admin_chat[1].body, updates[i].text[2], updates[j].text[2])

(* -------------------------------- C22 --------------------------------- *)

\* C22: a coalescing edit leaves the notification with the controls it
\* showed before the edit.
C22_EditKeepsControls ==
    [][\A j \in UpdateIds :
          (pc[j] = "hum_edit" /\ pc'[j] = "done") =>
              LET mid == outbox'[Len(outbox')].mid
              IN  admin_chat'[mid].kb = admin_chat[mid].kb]_vars

(* -------------------------------- C23 --------------------------------- *)

\* C23: every album in handled_media_groups has an item of a supported kind
\* that was routed past the block check, with a notification with controls
\* once that item has run to its end; and routing an item that is answered
\* with the block notice or the unsupported notice adds nothing to
\* handled_media_groups.
C23_MarkedAlbumsWereRelayed ==
    /\ [](\A g \in handled_media_groups :
            \E j \in UpdateIds :
                /\ RoutedByHum(j)
                /\ updates[j].group = g
                /\ updates[j].kind \in {"photo", "video"}
                /\ pc[j] # "hum_blocked"
                /\ Finished(j) => ControlSendsOf(j) # {})
    /\ [][\A j \in UpdateIds :
            (pc[j] = "idle" /\ pc'[j] \in {"hum_blocked", "hum_unsupported"}) =>
                UNCHANGED handled_media_groups]_vars

(* -------------------------------- C24 --------------------------------- *)

\* update j is a message of a supported kind from a sender who was not
\* blocked when it was routed
AcceptedMessage(j) ==
    /\ RoutedByHum(j)
    /\ ~IsCommandText(updates[j])
    /\ updates[j].kind \in {"text", "photo", "video"}
    /\ ~BlockedAt(updates[j].from_user, j)

\* the accepted messages outside albums, and the albums with an accepted item
LogicalMessages ==
    {<<"message", j>> : j \in {i \in UpdateIds : AcceptedMessage(i) /\ updates[i].group = 0}}
        \cup {<<"album", updates[j].group>> :
                 j \in {i \in UpdateIds : AcceptedMessage(i) /\ updates[i].group # 0}}

\* C24: user_message_log holds one entry per accepted message outside albums
\* and one per album with an accepted item; every entry has type text, photo
\* or video; an entry is appended with the anonymity flag its sender has at
\* that moment; and no step changes or removes an entry.
C24_OneEntryPerLogicalMessage ==
    /\ [](/\ Len(user_message_log) = Cardinality(LogicalMessages)
          /\ \A n \in 1 .. Len(user_message_log) :
                user_message_log[n].type \in {"text", "photo", "video"})
    /\ [][/\ Len(user_message_log') >= Len(user_message_log)
          /\ SubSeq(user_message_log', 1, Len(user_message_log)) = user_message_log
          /\ \A n \in (Len(user_message_log) + 1) .. Len(user_message_log') :
                LET e == user_message_log'[n]
                IN  /\ e.user_id \in DOMAIN user_settings'
                    /\ e.is_anon = user_settings'[e.user_id].anon]_vars

(* -------------------------------- C25 --------------------------------- *)

\* event ev sets the language or the anonymity flag of its sender
SetsSetting(ev) ==
    \/ /\ Handler(ev) = "cmd_anon"
       /\ ev.text[2] \in {0, 1, 2}
    \/ Handler(ev) = "cb_toggle_anon"
    \/ /\ Handler(ev) = "cb_set_lang"
       /\ ev.data.arg \in {CodeRu, CodeEn}

\* the status text for language lang and anonymity anon
StatusShown(lang, anon) ==
    <<<<IF lang = "en" THEN (IF anon THEN "anon_on_en" ELSE "anon_off_en")
        ELSE (IF anon THEN "anon_on_ru" ELSE "anon_off_ru"), 0>>,
      <<IF lang = "en" THEN "lang_en" ELSE "lang_ru", 0>>>>

\* with settings st and chats chat, the status message of user u exists and
\* shows the settings of u
StatusCurrentIn(st, chat, u) ==
    /\ u \in DOMAIN st
    /\ st[u].status_msg_id \in 1 .. Len(chat[u])
    /\ chat[u][st[u].status_msg_id].body = StatusShown(st[u].lang, st[u].anon)

StatusCurrent(u) == StatusCurrentIn(user_settings, user_chat, u)

\* C25: (a) in the state in which a /anon, toggle_anon or lang:<ru|en> event
\* has run to its end, status_msg_id of its sender is a message of the
\* sender's chat whose text shows the sender's language and anonymity; (b) an
\* event that finds no status_msg_id sends a status message, and one whose edit
\* of the status message fails goes on to send one; (c) the message sent has
\* the status as its text, and its id replaces status_msg_id.
C25_StatusShowsSettings ==
    /\ [][\A j \in UpdateIds :
            (pc[j] # "done" /\ pc'[j] = "done" /\ SetsSetting(updates'[j]))
                => StatusCurrentIn(user_settings', user_chat', updates'[j].from_user)]_vars
    /\ [][\A j \in UpdateIds :
            LET u == updates'[j].from_user
            IN  /\ (pc[j] = "idle" /\ pc'[j] # "idle" /\ SetsSetting(updates'[j])) =>
                       IF u \in DOMAIN user_settings /\ user_settings[u].status_msg_id # 0
                       THEN pc'[j] = "esm_edit" ELSE pc'[j] = "esm_send"
                /\ (pc[j] = "esm_edit" /\ pc'[j] # pc[j] /\ outbox' = outbox) =>
                       pc'[j] = "esm_send"
                /\ (pc[j] = "esm_send" /\ pc'[j] = "esm_pin") =>
                       /\ Len(user_chat'[u]) = Len(user_chat[u]) + 1
                       /\ user_chat'[u][Len(user_chat'[u])].body
                              = StatusShown(user_settings[u].lang, user_settings[u].anon)
                /\ (pc[j] = "esm_pin" /\ pc'[j] # pc[j]) =>
                       user_settings'[u].status_msg_id = Len(user_chat[u])]_vars

\* a user has switched to English and then toggled anonymity; the edit of the
\* status message failed for the second press, and the user's second status
\* message shows English and anonymity on
C25_Witness ==
    \E i, j \in UpdateIds :
        /\ i < j /\ Finished(i) /\ Finished(j)
        /\ Handler(updates[i]) = "cb_set_lang" /\ updates[i].data.arg = CodeEn
        /\ Handler(updates[j]) = "cb_toggle_anon"
        /\ \E k \in CallsOf(j) : outbox[k].op = "send_message"
        /\ StatusCurrent(1)
        /\ user_settings[1].lang = "en" /\ user_settings[1].anon
        /\ \E m \in 1 .. Len(user_chat[1]) :
              /\ m # user_settings[1].status_msg_id
              /\ user_chat[1][m].body = StatusShown("en", FALSE)

(* -------------------------------- C26 --------------------------------- *)

\* C26: (a) an update id is in processed_updates from the step in which its
\* routing starts, and no step removes an id from processed_updates; (b) an
\* update whose routing was aborted by a failed outbound call stays aborted:
\* no later step, a re-delivery of its id included, makes a call for it, binds
\* a notification or changes the statistics log on its behalf; (c) what it did
\* before the failure stays: its statistics entry and its calls; (d) an
\* aborted message of a user has no notification in the administrator chat.
C26_AbortedRoutingIsNotRepeated ==
    /\ [](\A id \in UpdateIds : pc[id] # "idle" => id \in processed_updates)
    /\ [](\A id \in UpdateIds :
            (pc[id] = "failed" /\ RoutedByHum(id)) => AdminCallsOf(id) = {})
    /\ [][/\ processed_updates \subseteq processed_updates'
          /\ Len(user_message_log') >= Len(user_message_log)
          /\ SubSeq(user_message_log', 1, Len(user_message_log)) = user_message_log
          /\ Len(outbox') >= Len(outbox)
          /\ SubSeq(outbox', 1, Len(outbox)) = outbox
          /\ \A id \in UpdateIds :
                pc[id] = "failed" =>
                    /\ pc'[id] = "failed"
                    /\ feeds'[id] = feeds[id]
                    /\ \A k \in (Len(outbox) + 1) .. Len(outbox') : outbox'[k].upd # id
                    /\ deliveries'[id] # deliveries[id] =>
                           UNCHANGED <<processed_updates, stores, world, pc, loc>>]_vars

\* a text whose routing was aborted after the acknowledgement, when the relay
\* call failed, was delivered again: it has its statistics entry and its
\* acknowledgement, and neither a notification nor a binding
C26_Witness ==
    \E id \in UpdateIds :
        /\ pc[id] = "failed"
        /\ deliveries[id] = 2
        /\ feeds[id] = 1
        /\ IsPlainText(id)
        /\ AcksOf(id) # {}
        /\ AdminCallsOf(id) = {}
        /\ Len(user_message_log) = 1
        /\ message_targets = <<>>
        /\ admin_chat = <<>>

(* -------------------------------- C27 --------------------------------- *)

\* the anonymity flag user u has, a user without a settings record having
\* the default
AnonOf(u) == IF u \in DOMAIN user_settings THEN user_settings[u].anon ELSE FALSE

\* C27: (a) when /start, /anon, toggle_anon or lang:<ru|en> of a user who is
\* in banned_users is handed to its handler, the handler does what it does for
\* any user: /start goes on to send the start message, /anon and toggle_anon
\* set the anonymity flag, lang sets the language, and the three go on to
\* the status message; (b) no call made for such an event sends the block
\* notice; (c) when /anon, toggle_anon or lang of a blocked user has run to
\* its end, the user's status message shows the user's settings.
C27_BlockGatesOnlyTheRelay ==
    [][\A j \in UpdateIds :
          LET ev == updates'[j]
              u == ev.from_user
              h == Handler(ev)
          IN  (/\ j \in 1 .. Len(updates')
               /\ pc'[j] # pc[j]
               /\ ev.chat = "private"
               /\ h \in {"cmd_start", "cmd_anon", "cb_toggle_anon", "cb_set_lang"}
               /\ u \in banned_users) =>
                  /\ pc'[j] # "hum_blocked"
                  /\ \A k \in (Len(outbox) + 1) .. Len(outbox') :
                        outbox'[k].upd = j =>
                            outbox'[k].body \notin {<<<<"blocked", 0>>>>, <<<<"blocked", 1>>>>}
                  /\ pc[j] = "idle" =>
                        /\ u \in DOMAIN user_settings'
                        /\ h = "cmd_start" => pc'[j] = "cst_answer"
                        /\ (h = "cmd_anon" /\ ev.text[2] = 0) =>
                               user_settings'[u].anon = ~AnonOf(u)
                        /\ (h = "cmd_anon" /\ ev.text[2] = 1) => user_settings'[u].anon
                        /\ (h = "cmd_anon" /\ ev.text[2] = 2) => ~user_settings'[u].anon
                        /\ h = "cb_toggle_anon" => user_settings'[u].anon = ~AnonOf(u)
                        /\ (h = "cb_set_lang" /\ ev.data.arg = CodeEn) =>
                               user_settings'[u].lang = "en"
                        /\ (h = "cb_set_lang" /\ ev.data.arg = CodeRu) =>
                               user_settings'[u].lang = "ru"
                        /\ SetsSetting(ev) => pc'[j] \in {"esm_edit", "esm_send"}
                  /\ (pc'[j] = "done" /\ SetsSetting(ev)) =>
                        StatusCurrentIn(user_settings', user_chat', u)]_vars

\* a blocked user has pressed the English button and the anonymity button
\* after the block was confirmed: the user, still blocked, has the
\* language English and anonymity on, and a status message that shows them
C27_Witness ==
    \E i, j, k \in UpdateIds :
        /\ i < j /\ i < k
        /\ Finished(i) /\ Finished(j) /\ Finished(k)
        /\ IsConfirm(i, "banconfirm", 1)
        /\ Handler(updates[j]) = "cb_set_lang" /\ updates[j].data.arg = CodeEn
        /\ Handler(updates[k]) = "cb_toggle_anon"
        /\ 1 \in banned_users
        /\ user_settings[1].lang = "en" /\ user_settings[1].anon
        /\ StatusCurrent(1)
        /\ \A c \in 1 .. Len(outbox) :
              outbox[c].body \notin {<<<<"blocked", 0>>>>, <<<<"blocked", 1>>>>}

====
